---- MODULE Spec2Model ----
(***************************************************************************)
(* Retrieval pipeline of policynth: the chunker (document_processor.py),   *)
(* the FAISS-backed vector store with its relevance scorer                 *)
(* (vector_store.py) and the per-document run of the query engine          *)
(* (query_engine.py).                                                      *)
(*                                                                         *)
(* A Python str is a sequence of one-character strings, so that substring  *)
(* tests, str.split, str.strip and the regular expressions of the source   *)
(* are computed on characters.  A float score is a fixed-point integer in  *)
(* units of 1/ScoreUnit; a multiplication by a boost truncates, as the     *)
(* rounding of a float multiplication does.                                *)
(***************************************************************************)
EXTENDS Integers, Sequences, FiniteSets, TLC

(***************************************************************************)
(* Characters and the str methods the source uses                          *)
(***************************************************************************)
UpperChars ==
    {"A","B","C","D","E","F","G","H","I","J","K","L","M",
     "N","O","P","Q","R","S","T","U","V","W","X","Y","Z"}

LowerChars ==
    {"a","b","c","d","e","f","g","h","i","j","k","l","m",
     "n","o","p","q","r","s","t","u","v","w","x","y","z"}

DigitChars == {"0","1","2","3","4","5","6","7","8","9"}

SpaceChars == {" ", "\n", "\t"}

WordChars == UpperChars \cup LowerChars \cup DigitChars \cup {"_"}

LowerOf ==
    [c \in UpperChars |->
        CASE c = "A" -> "a" [] c = "B" -> "b" [] c = "C" -> "c" [] c = "D" -> "d"
          [] c = "E" -> "e" [] c = "F" -> "f" [] c = "G" -> "g" [] c = "H" -> "h"
          [] c = "I" -> "i" [] c = "J" -> "j" [] c = "K" -> "k" [] c = "L" -> "l"
          [] c = "M" -> "m" [] c = "N" -> "n" [] c = "O" -> "o" [] c = "P" -> "p"
          [] c = "Q" -> "q" [] c = "R" -> "r" [] c = "S" -> "s" [] c = "T" -> "t"
          [] c = "U" -> "u" [] c = "V" -> "v" [] c = "W" -> "w" [] c = "X" -> "x"
          [] c = "Y" -> "y" [] c = "Z" -> "z"]

\* str.lower()
lower(t) == [i \in 1..Len(t) |-> IF t[i] \in UpperChars THEN LowerOf[t[i]] ELSE t[i]]

\* str.isupper(): at least one cased character and no lowercase one
isupper(t) ==
    /\ \E i \in 1..Len(t) : t[i] \in UpperChars
    /\ \A i \in 1..Len(t) : t[i] \notin LowerChars

\* "p in t" for two strings
Contains(p, t) ==
    \E i \in 0..(Len(t) - Len(p)) : \A j \in 1..Len(p) : t[i + j] = p[j]

\* any(word in t for word in words)
AnyIn(words, t) == \E w \in words : Contains(w, t)

\* the elements of a finite set of integers in increasing order
SortedSeq(S) ==
    [k \in 1..Cardinality(S) |-> CHOOSE x \in S : Cardinality({y \in S : y < x}) = k - 1]

\* str.strip()
strip(t) ==
    LET keep == {i \in 1..Len(t) : t[i] \notin SpaceChars}
    IN  IF keep = {} THEN << >>
        ELSE SubSeq(t, CHOOSE i \in keep : \A j \in keep : i <= j,
                       CHOOSE i \in keep : \A j \in keep : j <= i)

\* the positions at which the words of str.split() start
WordStarts(t) ==
    {i \in 1..Len(t) : t[i] \notin SpaceChars /\ (i = 1 \/ t[i - 1] \in SpaceChars)}

\* the position at which the word starting at i ends
WordEnd(t, i) ==
    CHOOSE j \in i..Len(t) :
        /\ \A m \in i..j : t[m] \notin SpaceChars
        /\ (j = Len(t) \/ t[j + 1] \in SpaceChars)

\* str.split(): the maximal runs of non-whitespace characters, in order
split(t) ==
    LET starts == SortedSeq(WordStarts(t))
    IN  [k \in 1..Len(starts) |-> SubSeq(t, starts[k], WordEnd(t, starts[k]))]

\* len(t.split())
WordCount(t) == Cardinality(WordStarts(t))

\* str.split('\n'): the pieces between newlines, empty pieces kept
SplitLines(t) ==
    LET nl   == SortedSeq({i \in 1..Len(t) : t[i] = "\n"})
        from(k) == IF k = 1 THEN 1 ELSE nl[k - 1] + 1
        to(k)   == IF k = Len(nl) + 1 THEN Len(t) ELSE nl[k] - 1
    IN  [k \in 1..(Len(nl) + 1) |-> SubSeq(t, from(k), to(k))]

\* sep.join(parts[lo..hi]), the range halved at each step
RECURSIVE JoinRange(_, _, _, _)
JoinRange(sep, parts, lo, hi) ==
    IF lo > hi THEN << >>
    ELSE IF lo = hi THEN parts[lo]
    ELSE JoinRange(sep, parts, lo, (lo + hi) \div 2)
            \o sep \o JoinRange(sep, parts, (lo + hi) \div 2 + 1, hi)

\* sep.join(parts)
Join(sep, parts) == JoinRange(sep, parts, 1, Len(parts))

(***************************************************************************)
(* document_processor.py: the chunker                                      *)
(***************************************************************************)
ChunkSize == 100

OverlapSize == 20

MinChunkWords == 50

SectionHeadingLimit == 100

\* re.match(r'^\d+\.\s+[A-Z]', line)
NumberedHeading(line) ==
    \E d \in 1..Len(line) :
        /\ \A i \in 1..d : line[i] \in DigitChars
        /\ d + 1 <= Len(line) /\ line[d + 1] = "."
        /\ \E e \in (d + 2)..Len(line) :
              /\ \A i \in (d + 2)..e : line[i] \in SpaceChars
              /\ e + 1 <= Len(line) /\ line[e + 1] \in UpperChars

\* re.match(r'^[A-Z][A-Z\s]{10,}$', line)
CapsBlock(line) ==
    /\ Len(line) >= 11
    /\ line[1] \in UpperChars
    /\ \A i \in 2..Len(line) : line[i] \in UpperChars \cup SpaceChars

\* the heading test of _split_by_semantic_boundaries, on a stripped line
IsSectionBreak(line) ==
    \/ isupper(line) /\ Len(line) > 10
    \/ NumberedHeading(line)
    \/ CapsBlock(line)
    \/ line # << >> /\ line[Len(line)] = ":" /\ WordCount(line) <= 5

\* the loop of _split_by_semantic_boundaries over the lines from k on
RECURSIVE SplitLoop(_, _, _, _)
SplitLoop(lines, k, sections, current_section) ==
    IF k > Len(lines)
    THEN IF strip(current_section.text) # << >>
         THEN Append(sections, current_section) ELSE sections
    ELSE LET line == strip(lines[k]) IN
         IF line = << >> THEN SplitLoop(lines, k + 1, sections, current_section)
         ELSE IF IsSectionBreak(line)
         THEN SplitLoop(lines, k + 1,
                  IF strip(current_section.text) # << >>
                  THEN Append(sections, current_section) ELSE sections,
                  [text |-> line, heading |-> line, type |-> "heading"])
         ELSE SplitLoop(lines, k + 1, sections,
                  [current_section EXCEPT !.text = @ \o <<"\n">> \o line])

_split_by_semantic_boundaries(text) ==
    SplitLoop(SplitLines(text), 1, << >>,
              [text |-> << >>, heading |-> << >>, type |-> "content"])

\* the separators of re.split(r'(?<=[.!?])\s+(?=[A-Z])', text): the first
\* position of each whitespace run that follows . ! ? and precedes a capital
SentenceBreaks(text) ==
    {s \in 2..Len(text) :
        /\ text[s] \in SpaceChars
        /\ text[s - 1] \in {".", "!", "?"}
        /\ \E e \in s..(Len(text) - 1) :
              /\ \A i \in s..e : text[i] \in SpaceChars
              /\ text[e + 1] \in UpperChars}

\* the last position of the whitespace run that starts at s
RunEnd(text, s) ==
    CHOOSE e \in s..Len(text) :
        /\ \A i \in s..e : text[i] \in SpaceChars
        /\ (e = Len(text) \/ text[e + 1] \notin SpaceChars)

_split_into_sentences(text) ==
    LET br   == SortedSeq(SentenceBreaks(text))
        from(k) == IF k = 1 THEN 1 ELSE RunEnd(text, br[k - 1]) + 1
        to(k)   == IF k = Len(br) + 1 THEN Len(text) ELSE br[k] - 1
        pieces  == [k \in 1..(Len(br) + 1) |-> strip(SubSeq(text, from(k), to(k)))]
    IN  SelectSeq(pieces, LAMBDA s : s # << >>)

\* sum(len(s.split()) for s in sentences)
RECURSIVE SumWords(_)
SumWords(sentences) ==
    IF sentences = << >> THEN 0
    ELSE WordCount(Head(sentences)) + SumWords(Tail(sentences))

\* the reversed loop of _get_overlap_sentences, from sentence k downwards
RECURSIVE OverlapLoop(_, _, _, _, _)
OverlapLoop(sentences, k, overlap_words, overlap_sentences, word_count) ==
    IF k = 0 THEN overlap_sentences
    ELSE LET sentence_words == WordCount(sentences[k]) IN
         IF word_count + sentence_words <= overlap_words
         THEN OverlapLoop(sentences, k - 1, overlap_words,
                          <<sentences[k]>> \o overlap_sentences,
                          word_count + sentence_words)
         ELSE overlap_sentences

_get_overlap_sentences(sentences, overlap_words) ==
    OverlapLoop(sentences, Len(sentences), overlap_words, << >>, 0)

KwDefinitions == {<<"d","e","f","i","n","i","t","i","o","n">>, <<"m","e","a","n","s">>, <<"d","e","f","i","n","e","d"," ","a","s">>, <<"s","h","a","l","l"," ","m","e","a","n">>}

KwCoverage == {<<"c","o","v","e","r","a","g","e">>, <<"b","e","n","e","f","i","t">>, <<"c","o","v","e","r","e","d">>, <<"i","n","s","u","r","e","d">>, <<"p","r","o","t","e","c","t","i","o","n">>}

KwExclusions == {<<"e","x","c","l","u","s","i","o","n">>, <<"e","x","c","l","u","d","e","d">>, <<"n","o","t"," ","c","o","v","e","r","e","d">>, <<"d","o","e","s"," ","n","o","t"," ","c","o","v","e","r">>}

KwLimits == {<<"l","i","m","i","t">>, <<"m","a","x","i","m","u","m">>, <<"m","i","n","i","m","u","m">>, <<"d","e","d","u","c","t","i","b","l","e">>, <<"a","m","o","u","n","t">>}

KwClaims == {<<"c","l","a","i","m">>, <<"p","r","o","c","e","d","u","r","e">>, <<"p","r","o","c","e","s","s">>, <<"s","u","b","m","i","t">>}

KwPremiums == {<<"p","r","e","m","i","u","m">>, <<"p","a","y","m","e","n","t">>, <<"c","o","s","t">>, <<"f","e","e">>}

KwConditions == {<<"c","o","n","d","i","t","i","o","n">>, <<"r","e","q","u","i","r","e","m","e","n","t">>, <<"m","u","s","t">>, <<"s","h","a","l","l">>}

detect_section_type_CoverageFirst(text) ==
    LET text_lower == lower(text) IN
    IF AnyIn(KwCoverage, text_lower) THEN "coverage"
    ELSE IF AnyIn(KwDefinitions, text_lower) THEN "definitions"
    ELSE IF AnyIn(KwExclusions, text_lower) THEN "exclusions"
    ELSE IF AnyIn(KwLimits, text_lower) THEN "limits"
    ELSE IF AnyIn(KwClaims, text_lower) THEN "claims"
    ELSE IF AnyIn(KwPremiums, text_lower) THEN "premiums"
    ELSE IF AnyIn(KwConditions, text_lower) THEN "conditions"
    ELSE "policy_clause"

detect_section_type(text) ==
    LET text_lower == lower(text) IN
    IF AnyIn(KwDefinitions, text_lower) THEN "definitions"
    ELSE IF AnyIn(KwCoverage, text_lower) THEN "coverage"
    ELSE IF AnyIn(KwExclusions, text_lower) THEN "exclusions"
    ELSE IF AnyIn(KwLimits, text_lower) THEN "limits"
    ELSE IF AnyIn(KwClaims, text_lower) THEN "claims"
    ELSE IF AnyIn(KwPremiums, text_lower) THEN "premiums"
    ELSE IF AnyIn(KwConditions, text_lower) THEN "conditions"
    ELSE "policy_clause"

\* the metadata dict of _create_chunk_with_metadata
ChunkMetadata(text, section, chunk_index) ==
    [source |-> "document",
     section |-> SubSeq(section.heading, 1,
                        IF Len(section.heading) < SectionHeadingLimit
                        THEN Len(section.heading) ELSE SectionHeadingLimit),
     type |-> detect_section_type(text),
     chunk_type |-> section.type,
     is_heading |-> (section.type = "heading"),
     chunk_index |-> chunk_index,
     word_count |-> WordCount(text),
     has_numbers |-> (\E i \in 1..Len(text) : text[i] \in DigitChars),
     has_definitions |-> (Contains(<<"m","e","a","n","s">>, lower(text)) \/ Contains(<<"d","e","f","i","n","e","d"," ","a","s">>, lower(text)))]

\* uuid is the value uuid.uuid4() draws for the chunk; embedding is None
_create_chunk_with_metadata(text, section, chunk_index, uuid) ==
    [id |-> uuid, text |-> text, metadata |-> ChunkMetadata(text, section, chunk_index),
     embedding |-> << >>]

\* a chunk emitted whatever the number of its words
EmitChunk_NoMinimum(chunks, current_chunk, section, uuid0) ==
    Append(chunks, _create_chunk_with_metadata(Join(<<" ">>, current_chunk), section,
                                               Len(chunks), uuid0 + Len(chunks)))

\* a chunk is emitted only when its text has the minimum number of words
EmitChunk(chunks, current_chunk, section, uuid0) ==
    LET chunk_text == Join(<<" ">>, current_chunk) IN
    IF WordCount(chunk_text) >= MinChunkWords
    THEN Append(chunks, _create_chunk_with_metadata(chunk_text, section, Len(chunks),
                                                    uuid0 + Len(chunks)))
    ELSE chunks

\* the loop of _create_overlapping_chunks over the sentences from k on
RECURSIVE WindowLoop(_, _, _, _, _, _, _)
WindowLoop(sentences, k, section, uuid0, chunks, current_chunk, current_words) ==
    IF k > Len(sentences)
    THEN IF current_chunk # << >>
         THEN EmitChunk(chunks, current_chunk, section, uuid0) ELSE chunks
    ELSE LET sentence == sentences[k]
             sentence_words == WordCount(sentence)
         IN  IF current_words + sentence_words > ChunkSize /\ current_chunk # << >>
             THEN LET next_chunk ==
                          _get_overlap_sentences(current_chunk, OverlapSize) \o <<sentence>>
                  IN  WindowLoop(sentences, k + 1, section, uuid0,
                                 EmitChunk(chunks, current_chunk, section, uuid0),
                                 next_chunk, SumWords(next_chunk))
             ELSE WindowLoop(sentences, k + 1, section, uuid0, chunks,
                             Append(current_chunk, sentence),
                             current_words + sentence_words)

_create_overlapping_chunks(section, uuid0) ==
    WindowLoop(_split_into_sentences(section.text), 1, section, uuid0, << >>, << >>, 0)

\* the loop of create_semantic_chunks over the sections from k on
RECURSIVE SectionLoop(_, _, _, _)
SectionLoop(sections, k, uuid0, chunks) ==
    IF k > Len(sections) THEN chunks
    ELSE SectionLoop(sections, k + 1, uuid0,
                     chunks \o _create_overlapping_chunks(sections[k], uuid0 + Len(chunks)))

\* uuid0 numbers the identifiers uuid.uuid4() hands out during the call
create_semantic_chunks(text, uuid0) ==
    SectionLoop(_split_by_semantic_boundaries(text), 1, uuid0, << >>)

(***************************************************************************)
(* vector_store.py: vectors, scores and the relevance scorer               *)
(***************************************************************************)
\* a unit vector has components in units of 1/NormScale
NormScale == 85

\* a score (an inner product of two unit vectors) is in units of 1/ScoreUnit
ScoreUnit == NormScale * NormScale

SIMILARITY_THRESHOLD == ScoreUnit \div 5

MAX_SEARCH_CANDIDATES == 15

TOP_K_RETRIEVAL == 4

\* score *= tenths / 10
Mul_Magnitude(score, tenths) ==
    LET size == IF score >= 0 THEN score ELSE 0 - score
    IN  (size \div 10) * tenths + ((size % 10) * tenths) \div 10

Mul(score, tenths) ==
    IF score >= 0
    THEN (score \div 10) * tenths + ((score % 10) * tenths) \div 10
    ELSE 0 - (((0 - score) \div 10) * tenths + (((0 - score) % 10) * tenths) \div 10)

RECURSIVE SumSq(_)
SumSq(v) == IF v = << >> THEN 0 ELSE Head(v) * Head(v) + SumSq(Tail(v))

\* np.linalg.norm(v)
Norm(v) == CHOOSE n \in 0..SumSq(v) : n * n <= SumSq(v) /\ SumSq(v) < (n + 1) * (n + 1)

\* v / np.linalg.norm(v)
Normalize(v) == [i \in 1..Len(v) |-> (v[i] * NormScale) \div Norm(v)]

\* the inner product IndexFlatIP computes
RECURSIVE InnerProduct(_, _)
InnerProduct(a, b) ==
    IF a = << >> THEN 0 ELSE Head(a) * Head(b) + InnerProduct(Tail(a), Tail(b))

\* _matches_filter; a filter and a metadata dict are functions from keys to values
_matches_filter(metadata, filter_dict) ==
    \A key \in DOMAIN filter_dict :
        key \in DOMAIN metadata /\ metadata[key] = filter_dict[key]

\* dict.get(key, default)
Get(dict, key, default) == IF key \in DOMAIN dict THEN dict[key] ELSE default

InsuranceTerms ==
    << [query_term |-> <<"p","r","e","m","i","u","m">>, chunk_terms |-> {<<"p","r","e","m","i","u","m">>, <<"p","a","y","m","e","n","t">>, <<"c","o","s","t">>}],
       [query_term |-> <<"d","e","d","u","c","t","i","b","l","e">>, chunk_terms |-> {<<"d","e","d","u","c","t","i","b","l","e">>, <<"e","x","c","e","s","s">>, <<"c","o","-","p","a","y">>}],
       [query_term |-> <<"c","l","a","i","m">>, chunk_terms |-> {<<"c","l","a","i","m">>, <<"s","e","t","t","l","e","m","e","n","t">>, <<"r","e","i","m","b","u","r","s","e","m","e","n","t">>}],
       [query_term |-> <<"h","o","s","p","i","t","a","l","i","z","a","t","i","o","n">>,
        chunk_terms |-> {<<"h","o","s","p","i","t","a","l","i","z","a","t","i","o","n">>, <<"h","o","s","p","i","t","a","l">>, <<"i","n","p","a","t","i","e","n","t">>}],
       [query_term |-> <<"p","r","e","-","e","x","i","s","t","i","n","g">>,
        chunk_terms |-> {<<"p","r","e","-","e","x","i","s","t","i","n","g">>, <<"p","r","e"," ","e","x","i","s","t","i","n","g">>, <<"p","r","i","o","r"," ","c","o","n","d","i","t","i","o","n">>}],
       [query_term |-> <<"w","a","i","t","i","n","g"," ","p","e","r","i","o","d">>,
        chunk_terms |-> {<<"w","a","i","t","i","n","g"," ","p","e","r","i","o","d">>, <<"w","a","i","t","i","n","g">>, <<"e","x","c","l","u","s","i","o","n"," ","p","e","r","i","o","d">>}] >>

\* the loop over insurance_terms, from term k on
RECURSIVE TermLoop(_, _, _, _)
TermLoop(score, query_lower, chunk_lower, k) ==
    IF k > Len(InsuranceTerms) THEN score
    ELSE TermLoop(IF /\ Contains(InsuranceTerms[k].query_term, query_lower)
                     /\ AnyIn(InsuranceTerms[k].chunk_terms, chunk_lower)
                  THEN Mul(score, 15) ELSE score,
                  query_lower, chunk_lower, k + 1)

\* score *= tenths / 10 when the condition holds
Boost(score, applies, tenths) == IF applies THEN Mul(score, tenths) ELSE score

\* a time-period group that does not look for a digit in the chunk
QueryPatternBoosts_NoDigitTest(score, query_lower, chunk_lower, section_type) ==
    LET asks_definition == AnyIn({<<"d","e","f","i","n","i","t","i","o","n">>, <<"d","e","f","i","n","e">>, <<"w","h","a","t"," ","i","s">>, <<"m","e","a","n","i","n","g">>}, query_lower)
        s1 == Boost(Boost(score,
                          /\ asks_definition
                          /\ (Contains(<<"m","e","a","n","s">>, chunk_lower) \/ Contains(<<"d","e","f","i","n","i","t","i","o","n">>, chunk_lower)),
                          22),
                    asks_definition /\ section_type = "definitions", 18)
        s2 == Boost(s1,
                    /\ AnyIn({<<"c","o","v","e","r","e","d">>, <<"c","o","v","e","r","a","g","e">>, <<"b","e","n","e","f","i","t">>, <<"i","n","c","l","u","d","e">>}, query_lower)
                    /\ AnyIn({<<"c","o","v","e","r","e","d">>, <<"c","o","v","e","r","a","g","e">>, <<"b","e","n","e","f","i","t">>, <<"i","n","c","l","u","d","e">>, <<"p","a","y">>, <<"r","e","i","m","b","u","r","s","e">>},
                             chunk_lower),
                    18)
        s3 == Boost(s2,
                    /\ AnyIn({<<"e","x","c","l","u","d","e","d">>, <<"e","x","c","l","u","s","i","o","n">>, <<"n","o","t"," ","c","o","v","e","r","e","d">>, <<"e","x","c","e","p","t","i","o","n">>}, query_lower)
                    /\ AnyIn({<<"e","x","c","l","u","d","e","d">>, <<"e","x","c","l","u","s","i","o","n">>, <<"n","o","t"," ","c","o","v","e","r","e","d">>, <<"e","x","c","e","p","t","i","o","n">>, <<"d","o","e","s"," ","n","o","t">>},
                             chunk_lower),
                    19)
        s4 == Boost(s3,
                    /\ AnyIn({<<"d","a","y","s">>, <<"m","o","n","t","h","s">>, <<"y","e","a","r","s">>, <<"p","e","r","i","o","d">>, <<"d","u","r","a","t","i","o","n">>}, query_lower)
                    /\ AnyIn({<<"d","a","y","s">>, <<"m","o","n","t","h","s">>, <<"y","e","a","r","s">>}, chunk_lower),
                    17)
        s5 == Boost(s4,
                    /\ AnyIn({<<"l","i","m","i","t">>, <<"a","m","o","u","n","t">>, <<"m","a","x","i","m","u","m">>, <<"m","i","n","i","m","u","m">>, <<"s","u","m">>}, query_lower)
                    /\ AnyIn({<<"l","i","m","i","t">>, <<"a","m","o","u","n","t">>, <<"m","a","x","i","m","u","m">>, <<"m","i","n","i","m","u","m">>, <<"s","u","m">>, <<"u","s","d">>, <<"i","n","r">>, <<"$">>},
                             chunk_lower),
                    16)
    IN  s5

\* the five query-pattern groups: definition, coverage, exclusion, time
\* period, limit
QueryPatternBoosts(score, query_lower, chunk_lower, section_type) ==
    LET asks_definition == AnyIn({<<"d","e","f","i","n","i","t","i","o","n">>, <<"d","e","f","i","n","e">>, <<"w","h","a","t"," ","i","s">>, <<"m","e","a","n","i","n","g">>}, query_lower)
        s1 == Boost(Boost(score,
                          /\ asks_definition
                          /\ (Contains(<<"m","e","a","n","s">>, chunk_lower) \/ Contains(<<"d","e","f","i","n","i","t","i","o","n">>, chunk_lower)),
                          22),
                    asks_definition /\ section_type = "definitions", 18)
        s2 == Boost(s1,
                    /\ AnyIn({<<"c","o","v","e","r","e","d">>, <<"c","o","v","e","r","a","g","e">>, <<"b","e","n","e","f","i","t">>, <<"i","n","c","l","u","d","e">>}, query_lower)
                    /\ AnyIn({<<"c","o","v","e","r","e","d">>, <<"c","o","v","e","r","a","g","e">>, <<"b","e","n","e","f","i","t">>, <<"i","n","c","l","u","d","e">>, <<"p","a","y">>, <<"r","e","i","m","b","u","r","s","e">>},
                             chunk_lower),
                    18)
        s3 == Boost(s2,
                    /\ AnyIn({<<"e","x","c","l","u","d","e","d">>, <<"e","x","c","l","u","s","i","o","n">>, <<"n","o","t"," ","c","o","v","e","r","e","d">>, <<"e","x","c","e","p","t","i","o","n">>}, query_lower)
                    /\ AnyIn({<<"e","x","c","l","u","d","e","d">>, <<"e","x","c","l","u","s","i","o","n">>, <<"n","o","t"," ","c","o","v","e","r","e","d">>, <<"e","x","c","e","p","t","i","o","n">>, <<"d","o","e","s"," ","n","o","t">>},
                             chunk_lower),
                    19)
        s4 == Boost(s3,
                    /\ AnyIn({<<"d","a","y","s">>, <<"m","o","n","t","h","s">>, <<"y","e","a","r","s">>, <<"p","e","r","i","o","d">>, <<"d","u","r","a","t","i","o","n">>}, query_lower)
                    /\ \E i \in 1..Len(chunk_lower) : chunk_lower[i] \in DigitChars
                    /\ AnyIn({<<"d","a","y","s">>, <<"m","o","n","t","h","s">>, <<"y","e","a","r","s">>}, chunk_lower),
                    17)
        s5 == Boost(s4,
                    /\ AnyIn({<<"l","i","m","i","t">>, <<"a","m","o","u","n","t">>, <<"m","a","x","i","m","u","m">>, <<"m","i","n","i","m","u","m">>, <<"s","u","m">>}, query_lower)
                    /\ AnyIn({<<"l","i","m","i","t">>, <<"a","m","o","u","n","t">>, <<"m","a","x","i","m","u","m">>, <<"m","i","n","i","m","u","m">>, <<"s","u","m">>, <<"u","s","d">>, <<"i","n","r">>, <<"$">>},
                             chunk_lower),
                    16)
    IN  s5

_apply_insurance_query_boosts(score, query_lower, chunk_lower, section_type) ==
    TermLoop(QueryPatternBoosts(score, query_lower, chunk_lower, section_type),
             query_lower, chunk_lower, 1)

_apply_keyword_density_boost_Penalty(score, query_lower, chunk_lower) ==
    LET all_words   == split(query_lower)
        query_words == {all_words[k] : k \in {j \in 1..Len(all_words) : Len(all_words[j]) > 3}}
        matches     == Cardinality({w \in query_words : Contains(w, chunk_lower)})
    IN  IF query_words = {} THEN score
        ELSE IF matches * 10 >= 8 * Cardinality(query_words) THEN Mul(score, 14)
        ELSE IF matches * 10 >= 6 * Cardinality(query_words) THEN Mul(score, 12)
        ELSE IF matches * 10 >= 4 * Cardinality(query_words) THEN Mul(score, 11)
        ELSE Mul(score, 9)

_apply_keyword_density_boost(score, query_lower, chunk_lower) ==
    LET all_words   == split(query_lower)
        query_words == {all_words[k] : k \in {j \in 1..Len(all_words) : Len(all_words[j]) > 3}}
        matches     == Cardinality({w \in query_words : Contains(w, chunk_lower)})
    IN  IF query_words = {} THEN score
        ELSE IF matches * 10 >= 8 * Cardinality(query_words) THEN Mul(score, 14)
        ELSE IF matches * 10 >= 6 * Cardinality(query_words) THEN Mul(score, 12)
        ELSE IF matches * 10 >= 4 * Cardinality(query_words) THEN Mul(score, 11)
        ELSE score

\* the positions at which the maximal runs of \w characters start
RunStarts(t) ==
    {i \in 1..Len(t) : t[i] \in WordChars /\ (i = 1 \/ t[i - 1] \notin WordChars)}

\* the last position of the run of \w characters that starts at i
RunStop(t, i) ==
    CHOOSE j \in i..Len(t) :
        /\ \A m \in i..j : t[m] \in WordChars
        /\ (j = Len(t) \/ t[j + 1] \notin WordChars)

\* the run starting at j follows the run starting at i after whitespace only
Linked(t, i, j) ==
    /\ RunStop(t, i) + 1 < j
    /\ \A m \in (RunStop(t, i) + 1)..(j - 1) : t[m] \in SpaceChars

\* the last run of the chain of linked runs that starts with the run at i
RECURSIVE ChainEnd(_, _)
ChainEnd(t, i) ==
    IF \E j \in RunStarts(t) : Linked(t, i, j)
    THEN ChainEnd(t, CHOOSE j \in RunStarts(t) : Linked(t, i, j))
    ELSE i

\* re.findall(r'\b\w+\s+\w+(?:\s+\w+)*\b', t): the maximal chains of two or
\* more runs of \w characters separated by whitespace only, left to right
FindPhrases(t) ==
    LET heads == {i \in RunStarts(t) :
                     /\ ~ \E h \in RunStarts(t) : Linked(t, h, i)
                     /\ ChainEnd(t, i) # i}
        hs    == SortedSeq(heads)
    IN  [k \in 1..Len(hs) |-> SubSeq(t, hs[k], RunStop(t, ChainEnd(t, hs[k])))]

\* the loop of _apply_phrase_matching_boost, from phrase k on
RECURSIVE PhraseLoop(_, _, _, _)
PhraseLoop(score, query_phrases, chunk_lower, k) ==
    IF k > Len(query_phrases) THEN score
    ELSE PhraseLoop(IF WordCount(query_phrases[k]) >= 2 /\ Contains(query_phrases[k], chunk_lower)
                    THEN Mul(score, 13) ELSE score,
                    query_phrases, chunk_lower, k + 1)

_apply_phrase_matching_boost(score, query_lower, chunk_lower) ==
    PhraseLoop(score, FindPhrases(query_lower), chunk_lower, 1)

\* the section matching of the intent block: one factor from the table of
\* intent types and section types
SectionMatch(base_score, metadata, query_intent) ==
    LET section_type == Get(metadata, "type", "")
        intent_type  == IF query_intent # << >> THEN Get(query_intent[1], "intent_type", "") ELSE ""
    IN  IF query_intent = << >> THEN base_score
        ELSE IF intent_type = "definition" /\ section_type = "definitions"
             THEN Mul(base_score, 18)
        ELSE IF /\ intent_type \in {"specific_value", "time_period"}
                /\ section_type \in {"coverage", "conditions", "limits"}
             THEN Mul(base_score, 16)
        ELSE IF intent_type = "coverage_check" /\ section_type \in {"coverage", "benefits"}
             THEN Mul(base_score, 15)
        ELSE IF intent_type = "exclusion_check" /\ section_type = "exclusions"
             THEN Mul(base_score, 17)
        ELSE base_score

\* the whole intent block: section matching, then the boost for numeric content
IntentAlignment(base_score, metadata, query_intent) ==
    Boost(SectionMatch(base_score, metadata, query_intent),
          /\ query_intent # << >>
          /\ Get(query_intent[1], "intent_type", "") \in {"specific_value", "time_period", "limits"}
          /\ Get(metadata, "has_numbers", FALSE),
          13)

\* the factor of the section type alone
SectionPriority(score, section_type) ==
    IF section_type = "definitions" THEN Mul(score, 16)
    ELSE IF section_type \in {"coverage", "limits", "benefits"} THEN Mul(score, 14)
    ELSE IF section_type \in {"exclusions", "conditions"} THEN Mul(score, 13)
    ELSE IF section_type \in {"claims", "procedures"} THEN Mul(score, 12)
    ELSE score

\* the boosts that compare the query with the chunk, skipped when either is missing
QueryBoosts(score, query_text, chunk_text, section_type) ==
    IF query_text # << >> /\ chunk_text # << >>
    THEN _apply_phrase_matching_boost(
             _apply_keyword_density_boost(
                 _apply_insurance_query_boosts(score, lower(query_text), lower(chunk_text),
                                               section_type),
                 lower(query_text), lower(chunk_text)),
             lower(query_text), lower(chunk_text))
    ELSE score

\* query_intent is a sequence: empty for None, else the one intent dict;
\* query_text is the empty string for None
_calculate_enhanced_score(base_score, metadata, query_text, chunk_text, query_intent) ==
    LET section_type == Get(metadata, "type", "")
        s2 == IntentAlignment(base_score, metadata, query_intent)
        s3 == SectionPriority(s2, section_type)
        s4 == Boost(s3, Get(metadata, "has_definitions", FALSE), 15)
        s5 == Boost(s4, Get(metadata, "has_numbers", FALSE), 12)
        s6 == Boost(s5, Get(metadata, "is_heading", FALSE), 11)
    IN  QueryBoosts(s6, query_text, chunk_text, section_type)

(***************************************************************************)
(* vector_store.py: the index, its metadata map and the persisted pair     *)
(***************************************************************************)
\* the longest chunk list store_chunks is given
MaxChunks == 2

\* the largest top_k search_similar is given
MaxTopK == 2

\* the chunks that pad a list beyond MAX_SEARCH_CANDIDATES
NumFillers == MAX_SEARCH_CANDIDATES

MaxListLen == NumFillers + MaxChunks

\* self.dimension: 384 in the source, 2 in the model
Dimension == 2

Min(a, b) == IF a <= b THEN a ELSE b

Max(a, b) == IF a >= b THEN a ELSE b

\* the entry store_chunks keeps for a chunk
MetadataEntry(chunk) == [id |-> chunk.id, text |-> chunk.text, metadata |-> chunk.metadata]

\* the chunks of a list that carry an embedding ("if chunk.embedding")
Embedded(chunks) == SelectSeq(chunks, LAMBDA c : c.embedding # << >>)

\* the vectors store_chunks adds: the normalized embeddings, in input order
StoredVectors(chunks) ==
    [k \in 1..Len(Embedded(chunks)) |-> Normalize(Embedded(chunks)[k].embedding)]

\* the metadata map after the loop of store_chunks: key len(vectors) - 1 of
\* every embedded chunk is assigned, every other key is left as it was
StoredMetadata(old, chunks) ==
    [key \in DOMAIN old \cup 0..(Len(Embedded(chunks)) - 1) |->
        IF key < Len(Embedded(chunks)) THEN MetadataEntry(Embedded(chunks)[key + 1])
        ELSE old[key]]

\* json.dump of the metadata map: the integer keys become strings
JsonDump(metadata) ==
    [s \in {ToString(key) : key \in DOMAIN metadata} |->
        metadata[CHOOSE key \in DOMAIN metadata : ToString(key) = s]]

\* {int(k): v for k, v in json.load(f).items()}
JsonLoadKeys(data) ==
    LET keys == {n \in 0..MaxListLen : ToString(n) \in DOMAIN data}
    IN  [n \in keys |-> data[ToString(n)]]

NoFile == << >>

\* index.search(query_vector, k): the k positions of largest inner product,
\* best first; FAISS leaves the order of equal scores open, and tie says
\* whether the lower or the higher position comes first
IndexSearch(idx, query_vector, k, tie) ==
    LET n  == Len(idx)
        sc == [i \in 0..(n - 1) |-> InnerProduct(idx[i + 1], query_vector)]
        before(j, i) == \/ sc[j] > sc[i]
                        \/ sc[j] = sc[i] /\ (IF tie = "low" THEN j < i ELSE j > i)
        rank(i) == Cardinality({j \in 0..(n - 1) : before(j, i)})
    IN  [r \in 1..k |->
            LET i == CHOOSE i \in 0..(n - 1) : rank(i) = r - 1
            IN  [score |-> sc[i], idx |-> i]]

\* the loop with the threshold compared with the raw score
RECURSIVE ResultLoop_RawThreshold(_, _, _, _, _)
ResultLoop_RawThreshold(scan, k, metadata, req, results) ==
    IF k > Len(scan) THEN results
    ELSE IF scan[k].idx \notin DOMAIN metadata
         THEN ResultLoop_RawThreshold(scan, k + 1, metadata, req, results)
    ELSE LET chunk_data == metadata[scan[k].idx]
             enhanced_score ==
                 _calculate_enhanced_score(scan[k].score, chunk_data.metadata,
                                           req.query_text, chunk_data.text, req.query_intent)
         IN  IF /\ req.metadata_filter # << >>
                /\ ~ _matches_filter(chunk_data.metadata, req.metadata_filter[1])
             THEN ResultLoop_RawThreshold(scan, k + 1, metadata, req, results)
             ELSE IF scan[k].score < SIMILARITY_THRESHOLD
             THEN ResultLoop_RawThreshold(scan, k + 1, metadata, req, results)
             ELSE ResultLoop_RawThreshold(scan, k + 1, metadata, req,
                             Append(results, [chunk |-> chunk_data, score |-> enhanced_score]))

\* the loop of search_similar over the candidates from k on
RECURSIVE ResultLoop(_, _, _, _, _)
ResultLoop(scan, k, metadata, req, results) ==
    IF k > Len(scan) THEN results
    ELSE IF scan[k].idx \notin DOMAIN metadata
         THEN ResultLoop(scan, k + 1, metadata, req, results)
    ELSE LET chunk_data == metadata[scan[k].idx]
             enhanced_score ==
                 _calculate_enhanced_score(scan[k].score, chunk_data.metadata,
                                           req.query_text, chunk_data.text, req.query_intent)
         IN  IF /\ req.metadata_filter # << >>
                /\ ~ _matches_filter(chunk_data.metadata, req.metadata_filter[1])
             THEN ResultLoop(scan, k + 1, metadata, req, results)
             ELSE IF enhanced_score < SIMILARITY_THRESHOLD
             THEN ResultLoop(scan, k + 1, metadata, req, results)
             ELSE ResultLoop(scan, k + 1, metadata, req,
                             Append(results, [chunk |-> chunk_data, score |-> enhanced_score]))

\* the results left in scan order
SortByScore_ScanOrder(results) == results

\* results.sort(key=lambda x: x.score, reverse=True): a stable sort
SortByScore(results) ==
    LET rank(k) == Cardinality({j \in 1..Len(results) :
                        \/ results[j].score > results[k].score
                        \/ results[j].score = results[k].score /\ j < k})
    IN  [r \in 1..Len(results) |-> results[CHOOSE k \in 1..Len(results) : rank(k) = r - 1]]

\* seq[:top_k]
SliceTo(seq, top_k) ==
    IF top_k >= 0 THEN SubSeq(seq, 1, Min(top_k, Len(seq)))
    ELSE SubSeq(seq, 1, Max(Len(seq) + top_k, 0))

\* a scan of the whole index
Scan_WholeIndex(idx, req, tie) ==
    IndexSearch(idx, Normalize(req.query_embedding), Len(idx), tie)

\* the candidates search_similar scans
Scan(idx, req, tie) ==
    IndexSearch(idx, Normalize(req.query_embedding), Min(MAX_SEARCH_CANDIDATES, Len(idx)), tie)

\* search_similar: what it returns, or that it raised
search_similar(idx, metadata, req, top_k, tie) ==
    IF Len(idx) = 0
    THEN [raised |-> FALSE, scanned |-> << >>, results |-> << >>]
    ELSE IF Len(req.query_embedding) # Dimension
    THEN [raised |-> TRUE, scanned |-> << >>, results |-> << >>]
    ELSE LET scan == Scan(idx, req, tie)
         IN  [raised |-> FALSE, scanned |-> scan,
              results |-> SliceTo(SortByScore(ResultLoop(scan, 1, metadata, req, << >>)), top_k)]

(***************************************************************************)
(* The chunks, chunk lists and search requests the store is driven with    *)
(***************************************************************************)
NoSection == [text |-> << >>, heading |-> << >>, type |-> "content"]

\* a DocumentChunk; embedding is the empty sequence for None
DocumentChunk(id, text, embedding) ==
    [id |-> id, text |-> text, metadata |-> ChunkMetadata(text, NoSection, 0),
     embedding |-> embedding]

ChunkGrace == DocumentChunk(1, <<"G","r","a","c","e"," ","p","e","r","i","o","d"," ","m","e","a","n","s"," ","3","0"," ","d","a","y","s",".">>, <<15, 8>>)

ChunkMaternity == DocumentChunk(2, <<"M","a","t","e","r","n","i","t","y"," ","i","s"," ","c","o","v","e","r","e","d"," ","a","f","t","e","r"," ","9"," ","m","o","n","t","h","s",".">>, <<3, 4>>)

ChunkMaternityCopy == DocumentChunk(3, <<"M","a","t","e","r","n","i","t","y"," ","i","s"," ","c","o","v","e","r","e","d"," ","a","f","t","e","r"," ","9"," ","m","o","n","t","h","s",".">>, <<6, 8>>)

ChunkNoEmbedding == DocumentChunk(4, <<"C","l","a","i","m","s"," ","m","u","s","t"," ","b","e"," ","s","u","b","m","i","t","t","e","d",".">>, << >>)

Filler(i) == DocumentChunk(100 + i, <<"P","o","l","i","c","y"," ","a","p","p","l","i","e","s",".">>, <<15, 8>>)

Fillers == [i \in 1..NumFillers |-> Filler(i)]

\* the lists of at most n distinct chunks of S (a chunk has its own uuid)
SeqsUpTo(S, n) ==
    UNION {{l \in [1..m -> S] : \A i, j \in 1..m : l[i] = l[j] => i = j} : m \in 0..n}

\* the chunk lists of Spec
StorePool == {ChunkGrace, ChunkMaternity, ChunkNoEmbedding}

StoreLists == SeqsUpTo(StorePool, MaxChunks)

\* the chunk lists of SpecSearch: short ones with equal scores, and one
\* longer than MAX_SEARCH_CANDIDATES
LongLists == {Fillers \o <<ChunkGrace>>}

\* a list where the candidate scanned first has the lowest boosted score
TieLists == {<<ChunkGrace, ChunkMaternity, ChunkMaternityCopy>>}

SearchLists ==
    SeqsUpTo({ChunkGrace, ChunkMaternity, ChunkMaternityCopy}, MaxChunks)
        \cup TieLists \cup LongLists

Intent(intent_type, expects_numbers) ==
    [intent_type |-> intent_type, expects_numbers |-> expects_numbers]

\* metadata_filter and query_intent are sequences: empty for None
SearchRequest(query_embedding, query_text, query_intent, metadata_filter) ==
    [query_embedding |-> query_embedding, query_text |-> query_text,
     query_intent |-> query_intent, metadata_filter |-> metadata_filter]

ReqDefinition ==
    SearchRequest(<<3, -4>>, <<"W","h","a","t"," ","i","s"," ","t","h","e"," ","g","r","a","c","e"," ","p","e","r","i","o","d","?">>, <<Intent("definition", FALSE)>>, << >>)

ReqPlain == SearchRequest(<<0, 5>>, << >>, << >>, << >>)

ReqCoverage ==
    SearchRequest(<<4, 3>>, <<"I","s"," ","m","a","t","e","r","n","i","t","y"," ","c","o","v","e","r","e","d","?">>, <<Intent("coverage_check", FALSE)>>, << >>)

ReqFiltered == SearchRequest(<<4, 3>>, << >>, << >>, <<[type |-> "coverage"]>>)

ReqBadDimension == SearchRequest(<<5>>, << >>, << >>, << >>)

SearchRequests == {ReqDefinition, ReqPlain, ReqCoverage, ReqFiltered, ReqBadDimension}

\* the requests of Spec
StoreRequests == {ReqDefinition, ReqPlain, ReqBadDimension}

TopKs == 0..MaxTopK

TieOrders == {"low", "high"}

SaveOutcomes == {"saved", "write_index_failed", "dump_failed"}

\* with the failures that leave an unreadable index file or the old metadata file
AllSaveOutcomes == SaveOutcomes \cup {"write_index_truncated", "open_failed"}

(***************************************************************************)
(* State                                                                   *)
(***************************************************************************)
VARIABLES
    index,            \* self.index: the vectors of the FAISS index, in order
    chunks_metadata,  \* self.chunks_metadata: position -> {id, text, metadata}
    index_file,       \* faiss_index.bin: NoFile or <<[valid, vectors]>>
    metadata_file,    \* faiss_metadata.json: NoFile or <<[valid, data]>>
    last,             \* the last call that changed the store
    rebuilt_twice,    \* the last two such calls were store_chunks with different non-empty lists
    searched,         \* the last search_similar call since then: << >> or <<call>>
    pc,               \* where process_query stands
    request,          \* the QueryRequest of the run: documents, questions
    doc_chunks,       \* the local chunks of process_query
    answers,          \* the local answers of process_query
    run,              \* how the run went: outcome, ingested, excepted, dirty, blank
    document,         \* the text given to create_semantic_chunks
    produced,         \* << >>, or <<the chunk list create_semantic_chunks returned>>
    args,             \* the arguments of a call of a pure function, << >> when none
    result,           \* << >>, or <<the value the call returned>>
    tasks,            \* the process_query coroutines of the requests in flight
    loop              \* the request whose coroutine the event loop is running, 0 for none

storeVars == <<index, chunks_metadata, index_file, metadata_file>>

logVars == <<last, rebuilt_twice, searched>>

engineVars == <<pc, request, doc_chunks, answers, run>>

chunkerVars == <<document, produced>>

callVars == <<args, result>>

loopVars == <<tasks, loop>>

vars == <<storeVars, logVars, engineVars, chunkerVars, callVars, loopVars>>

EmptyMetadata == [key \in {} |-> key]

Call(op, chunks) == [op |-> op, chunks |-> chunks]

Log(call) ==
    /\ last' = call
    /\ rebuilt_twice' = (/\ last.op = "store_chunks" /\ last.chunks # << >>
                         /\ call.op = "store_chunks" /\ call.chunks # << >>
                         /\ call.chunks # last.chunks)
    /\ searched' = << >>

\* a clear_index that removes the file and keeps the vectors
clear_index_KeepsVectors(store) ==
    [store EXCEPT !.index_file = NoFile]

\* clear_index: a new index; the index file is removed, the metadata stays
clear_index(store) ==
    [store EXCEPT !.index = << >>, !.index_file = NoFile]

IndexFile(vectors) == <<[valid |-> TRUE, vectors |-> vectors]>>

UnreadableIndexFile == <<[valid |-> FALSE, vectors |-> << >>]>>

MetadataFile(metadata) == <<[valid |-> TRUE, data |-> JsonDump(metadata)]>>

UnreadableMetadataFile == <<[valid |-> FALSE, data |-> EmptyMetadata]>>

\* _save_index: a failure of either write is swallowed. faiss.write_index
\* fails before or while it writes; open fails and leaves the old metadata
\* file; json.dump fails after open has truncated the file
_save_index(store, outcome) ==
    CASE outcome = "saved" ->
            [store EXCEPT !.index_file = IndexFile(store.index),
                          !.metadata_file = MetadataFile(store.chunks_metadata)]
      [] outcome = "write_index_failed" -> store
      [] outcome = "write_index_truncated" ->
            [store EXCEPT !.index_file = UnreadableIndexFile]
      [] outcome = "open_failed" ->
            [store EXCEPT !.index_file = IndexFile(store.index)]
      [] outcome = "dump_failed" ->
            [store EXCEPT !.index_file = IndexFile(store.index),
                          !.metadata_file = UnreadableMetadataFile]

\* store_chunks on the store record [index, chunks_metadata, index_file, metadata_file]
store_chunks(store, chunks, outcome) ==
    IF chunks = << >> THEN store
    ELSE LET cleared == clear_index(store)
             vectors == StoredVectors(chunks)
             looped  == [cleared EXCEPT
                            !.chunks_metadata = StoredMetadata(cleared.chunks_metadata, chunks)]
         IN  IF vectors # << >>
             THEN _save_index([looped EXCEPT !.index = cleared.index \o vectors], outcome)
             ELSE looped

\* a complete_cleanup that does what clear_index does
complete_cleanup_KeepsMetadata(store) ==
    [store EXCEPT !.index = << >>, !.index_file = NoFile]

\* complete_cleanup: a new index, no metadata, neither file
complete_cleanup(store) ==
    [index |-> << >>, chunks_metadata |-> EmptyMetadata,
     index_file |-> NoFile, metadata_file |-> NoFile]

\* a _load_index whose except clause leaves the index it has already read
_load_index_KeepsReadIndex(store) ==
    IF store.index_file # NoFile /\ store.metadata_file # NoFile
    THEN IF ~ store.index_file[1].valid
         THEN [store EXCEPT !.index = << >>, !.chunks_metadata = EmptyMetadata]
         ELSE IF ~ store.metadata_file[1].valid
         THEN [store EXCEPT !.index = store.index_file[1].vectors,
                            !.chunks_metadata = EmptyMetadata]
         ELSE [store EXCEPT !.index = store.index_file[1].vectors,
                            !.chunks_metadata = JsonLoadKeys(store.metadata_file[1].data)]
    ELSE store

\* _load_index, run by __init__ on a new store: both files are read when
\* both exist, and a failure of either read leaves a new index and no metadata
_load_index(store) ==
    IF store.index_file # NoFile /\ store.metadata_file # NoFile
    THEN IF store.index_file[1].valid /\ store.metadata_file[1].valid
         THEN [store EXCEPT !.index = store.index_file[1].vectors,
                            !.chunks_metadata = JsonLoadKeys(store.metadata_file[1].data)]
         ELSE [store EXCEPT !.index = << >>, !.chunks_metadata = EmptyMetadata]
    ELSE store

Store ==
    [index |-> index, chunks_metadata |-> chunks_metadata,
     index_file |-> index_file, metadata_file |-> metadata_file]

SetStore(store) ==
    /\ index' = store.index
    /\ chunks_metadata' = store.chunks_metadata
    /\ index_file' = store.index_file
    /\ metadata_file' = store.metadata_file

(***************************************************************************)
(* Spec: one VectorStore driven through its public methods                 *)
(***************************************************************************)
NoRequest == [documents |-> "", questions |-> << >>]

NoRun ==
    [outcome |-> "none", ingested |-> FALSE, excepted |-> << >>, dirty |-> FALSE,
     blank |-> FALSE]

\* no process_query has been called
EngineIdle ==
    /\ pc = "idle"
    /\ request = NoRequest
    /\ doc_chunks = << >>
    /\ answers = << >>
    /\ run = NoRun
    /\ tasks = << >>
    /\ loop = 0

\* no document has been chunked
ChunkerIdle ==
    /\ document = << >>
    /\ produced = << >>

NoCall ==
    /\ args = << >>
    /\ result = << >>

\* a store that found no files, and no call made
StoreNew ==
    /\ index = << >>
    /\ chunks_metadata = EmptyMetadata
    /\ index_file = NoFile
    /\ metadata_file = NoFile
    /\ last = Call("__init__", << >>)
    /\ rebuilt_twice = FALSE
    /\ searched = << >>

Init == StoreNew /\ EngineIdle /\ ChunkerIdle /\ NoCall

StoreChunks ==
    \E list \in StoreLists, outcome \in SaveOutcomes :
        /\ SetStore(store_chunks(Store, list, outcome))
        /\ Log(Call("store_chunks", list))
        /\ UNCHANGED <<engineVars, chunkerVars, callVars, loopVars>>

ClearIndex ==
    /\ SetStore(clear_index(Store))
    /\ Log(Call("clear_index", << >>))
    /\ UNCHANGED <<engineVars, chunkerVars, callVars, loopVars>>

CompleteCleanup ==
    /\ SetStore(complete_cleanup(Store))
    /\ Log(Call("complete_cleanup", << >>))
    /\ UNCHANGED <<engineVars, chunkerVars, callVars, loopVars>>

\* the process starts again: __init__ builds a new store from the files
NewVectorStore ==
    /\ SetStore(_load_index([Store EXCEPT !.index = << >>, !.chunks_metadata = EmptyMetadata]))
    /\ Log(Call("__init__", << >>))
    /\ UNCHANGED <<engineVars, chunkerVars, callVars, loopVars>>

SearchSimilar ==
    \E req \in StoreRequests, top_k \in TopKs, tie \in TieOrders :
        /\ searched' = <<[req |-> req, top_k |-> top_k]
                          @@ search_similar(index, chunks_metadata, req, top_k, tie)>>
        /\ UNCHANGED <<storeVars, last, rebuilt_twice, engineVars, chunkerVars, callVars, loopVars>>

Next == StoreChunks \/ ClearIndex \/ CompleteCleanup \/ NewVectorStore \/ SearchSimilar

Spec == Init /\ [][Next]_vars

(***************************************************************************)
(* SpecRebuild: the store driven by store_chunks and complete_cleanup only *)
(***************************************************************************)
NextRebuild == StoreChunks \/ CompleteCleanup

SpecRebuild == Init /\ [][NextRebuild]_vars

\* the entries the metadata map holds for a chunk list stored alone
FreshMetadata(chunks) ==
    [key \in 0..(Len(Embedded(chunks)) - 1) |-> MetadataEntry(Embedded(chunks)[key + 1])]

\* the last search_similar call
Searched == searched[1]

\* C1: after any sequence of store_chunks and complete_cleanup calls the
\* index holds as many vectors as chunks_metadata has entries, and the keys
\* of chunks_metadata are the positions 0..ntotal-1
C1_Lockstep == DOMAIN chunks_metadata = 0..(Len(index) - 1)

\* C2: after store_chunks(C), for every list C (also the empty one and one
\* shorter than the list before), the index and the metadata map hold the
\* embedded chunks of C, in input order, and nothing else
C2_StoreReplacesAll ==
    last.op = "store_chunks" =>
        /\ index = StoredVectors(last.chunks)
        /\ chunks_metadata = FreshMetadata(last.chunks)

\* C3: after two store_chunks calls in succession with different non-empty
\* lists, every result of search_similar carries the id and the text of a
\* chunk of the second list
C3_SecondSetOnly ==
    (rebuilt_twice /\ searched # << >>) =>
        \A r \in 1..Len(Searched.results) :
            \E c \in 1..Len(last.chunks) :
                /\ Searched.results[r].chunk.id = last.chunks[c].id
                /\ Searched.results[r].chunk.text = last.chunks[c].text

\* C3 happens: a search after the second of two rebuilds returns a chunk
C3_Witness == rebuilt_twice /\ searched # << >> /\ Searched.results # << >>

\* C4: after complete_cleanup the index has no vector, chunks_metadata is
\* empty, neither file exists, and search_similar returns the empty list
\* without raising, whatever the query and k
C4_PurgeEmpties ==
    last.op = "complete_cleanup" =>
        /\ Len(index) = 0
        /\ DOMAIN chunks_metadata = {}
        /\ index_file = NoFile /\ metadata_file = NoFile
        /\ searched # << >> => (~ Searched.raised /\ Searched.results = << >>)
        /\ \A req \in SearchRequests, top_k \in TopKs, tie \in TieOrders :
              LET res == search_similar(index, chunks_metadata, req, top_k, tie)
              IN  ~ res.raised /\ res.results = << >>

\* C4 happens: after the purge, a query of the wrong dimension, which raises
\* on an index with vectors, was searched
C4_Witness ==
    /\ last.op = "complete_cleanup"
    /\ searched # << >>
    /\ Searched.req = ReqBadDimension
    /\ Searched.top_k > 0

(***************************************************************************)
(* SpecSearch: search_similar over rebuilt indexes, with equal scores,     *)
(* boosts, a metadata filter and a list longer than MAX_SEARCH_CANDIDATES; *)
(* the call log is not kept                                                *)
(***************************************************************************)
\* the values of top_k in SpecSearch: one is above MAX_SEARCH_CANDIDATES
SearchTopKs == TopKs \cup {MAX_SEARCH_CANDIDATES + 1}

RebuildForSearch ==
    \E list \in SearchLists :
        /\ SetStore(store_chunks(Store, list, "saved"))
        /\ searched' = << >>
        /\ UNCHANGED <<last, rebuilt_twice, engineVars, chunkerVars, callVars, loopVars>>

SearchAny ==
    \E req \in SearchRequests, top_k \in SearchTopKs, tie \in TieOrders :
        /\ searched' = <<[req |-> req, top_k |-> top_k]
                          @@ search_similar(index, chunks_metadata, req, top_k, tie)>>
        /\ UNCHANGED <<storeVars, last, rebuilt_twice, engineVars, chunkerVars, callVars, loopVars>>

NextSearch == RebuildForSearch \/ SearchAny

SpecSearch == Init /\ [][NextSearch]_vars

\* the boosted score of the chunk stored at position idx, for raw score raw
Boosted(raw, idx, req) ==
    _calculate_enhanced_score(raw, chunks_metadata[idx].metadata, req.query_text,
                              chunks_metadata[idx].text, req.query_intent)

\* the chunk at position idx passes the metadata filter of the request
PassesFilter(idx, req) ==
    req.metadata_filter = << >>
        \/ _matches_filter(chunks_metadata[idx].metadata, req.metadata_filter[1])

\* the scanned candidates that the loop of search_similar keeps
Kept(call) ==
    {p \in 1..Len(call.scanned) :
        /\ call.scanned[p].idx \in DOMAIN chunks_metadata
        /\ PassesFilter(call.scanned[p].idx, call.req)
        /\ Boosted(call.scanned[p].score, call.scanned[p].idx, call.req) >= SIMILARITY_THRESHOLD}

\* the place in the scan of the candidate a result was made from
ScanPos(call, r) ==
    CHOOSE p \in 1..Len(call.scanned) :
        /\ call.scanned[p].idx \in DOMAIN chunks_metadata
        /\ chunks_metadata[call.scanned[p].idx].id = call.results[r].chunk.id

\* C7: no result of search_similar has a boosted score below
\* SIMILARITY_THRESHOLD, and the threshold is compared with the boosted
\* score: a candidate is returned (room in top_k permitting) exactly when its
\* boosted score reaches the threshold, whatever its raw score
C7_ThresholdOnBoosted ==
    searched # << >> =>
        /\ \A r \in 1..Len(Searched.results) :
              /\ Searched.results[r].score >= SIMILARITY_THRESHOLD
              /\ ScanPos(Searched, r) \in Kept(Searched)
              /\ Searched.results[r].score =
                     Boosted(Searched.scanned[ScanPos(Searched, r)].score,
                             Searched.scanned[ScanPos(Searched, r)].idx, Searched.req)
        /\ Len(Searched.results) < Searched.top_k =>
              \A p \in Kept(Searched) :
                  \E r \in 1..Len(Searched.results) : ScanPos(Searched, r) = p

\* C7 happens: a result whose raw score is below the threshold
C7_Witness ==
    /\ searched # << >>
    /\ \E r \in 1..Len(Searched.results) :
          /\ Searched.scanned[ScanPos(Searched, r)].score < SIMILARITY_THRESHOLD
          /\ Searched.results[r].score >= SIMILARITY_THRESHOLD

\* C8: the results are in descending order of boosted score, at most top_k,
\* and results of equal score are in the order of the index scan
C8_SortedTopK ==
    searched # << >> =>
        /\ Len(Searched.results) <= Searched.top_k
        /\ \A i, j \in 1..Len(Searched.results) :
              i < j =>
                 /\ Searched.results[i].score >= Searched.results[j].score
                 /\ Searched.results[i].score = Searched.results[j].score
                       => ScanPos(Searched, i) < ScanPos(Searched, j)
        /\ \A r \in 1..Len(Searched.results) : ScanPos(Searched, r) \in Kept(Searched)
        /\ \A p \in Kept(Searched) :
              \/ \E r \in 1..Len(Searched.results) : ScanPos(Searched, r) = p
              \/ /\ Len(Searched.results) = Searched.top_k
                 /\ \A r \in 1..Len(Searched.results) :
                       Searched.results[r].score >=
                           Boosted(Searched.scanned[p].score, Searched.scanned[p].idx, Searched.req)

\* C8 happens: the sort moved a candidate ahead of one scanned before it,
\* two results have equal scores, and a kept candidate was cut by top_k
C8_Witness ==
    /\ searched # << >>
    /\ Len(Searched.results) = 2
    /\ Searched.results[1].score = Searched.results[2].score
    /\ Cardinality(Kept(Searched)) > Searched.top_k
    /\ \E p \in Kept(Searched) : p < ScanPos(Searched, 1) /\ p < ScanPos(Searched, 2)

\* the stored chunks that pass the filter with a boosted score at or above
\* the threshold
StoredAboveThreshold(req) ==
    {i \in 0..(Len(index) - 1) :
        /\ i \in DOMAIN chunks_metadata
        /\ PassesFilter(i, req)
        /\ Boosted(InnerProduct(index[i + 1], Normalize(req.query_embedding)), i, req)
               >= SIMILARITY_THRESHOLD}

MaxParts == 3

\* a sentence of n words: "A a a ... a."
Sentence(n) ==
    [i \in 1..(2 * n) |->
        IF i = 1 THEN "A" ELSE IF i = 2 * n THEN "." ELSE IF i % 2 = 0 THEN " " ELSE "a"]

\* n words that go on the sentence before them: "a a ... a."
Continuation(n) == [i \in 1..(2 * n) |-> IF i = 2 * n THEN "." ELSE IF i % 2 = 0 THEN " " ELSE "a"]

HeadingLine == <<"C","O","V","E","R","A","G","E"," ","D","E","T","A","I","L","S">>

\* the numbers of words of the sentences
SentenceWords == {5, 45, 60, 110}

Parts == {Sentence(n) : n \in SentenceWords} \cup {Continuation(30), HeadingLine}

\* the parts on one line each when a heading is next to them, else a space apart
RECURSIVE DocumentText(_)
DocumentText(parts) ==
    IF parts = << >> THEN << >>
    ELSE IF Len(parts) = 1 THEN parts[1]
    ELSE parts[1]
            \o (IF parts[1] = HeadingLine \/ parts[2] = HeadingLine THEN <<"\n">> ELSE <<" ">>)
            \o DocumentText(Tail(parts))

\* documents of four sentences: a chunk ending in a short sentence, then a
\* sentence that overflows the window, then one more
OverlapDocuments ==
    {DocumentText(<<Sentence(60), Sentence(5), Sentence(n), Sentence(60)>>) : n \in {40, 45}}

\* "DEFINITIONS\nGrace period means 30 days. COVERAGE\nMaternity is covered after 9 months."
ExampleDocument ==
    <<"D","E","F","I","N","I","T","I","O","N","S","\n","G","r","a","c","e"," ","p","e","r","i","o","d"," ","m","e","a","n","s"," ","3","0"," ","d","a","y","s","."," ","C","O","V","E","R","A","G","E","\n","M","a","t","e","r","n","i","t","y"," ","i","s"," ","c","o","v","e","r","e","d"," ","a","f","t","e","r"," ","9"," ","m","o","n","t","h","s",".">>

Documents ==
    {DocumentText(parts) : parts \in UNION {[1..m -> Parts] : m \in 0..MaxParts}}
        \cup OverlapDocuments \cup {ExampleDocument}

InitChunk ==
    /\ StoreNew
    /\ EngineIdle
    /\ document \in Documents
    /\ produced = << >>
    /\ NoCall

CreateSemanticChunks ==
    /\ produced' = <<create_semantic_chunks(document, 1)>>
    /\ UNCHANGED <<storeVars, logVars, engineVars, document, callVars, loopVars>>

NextChunk == CreateSemanticChunks

SpecChunk == InitChunk /\ [][NextChunk]_vars

\* C10: every chunk create_semantic_chunks produces has at least 50 words,
\* and its metadata word_count is the number of whitespace-separated words
\* of its text
C10_MinWordsAndCount ==
    produced # << >> =>
        \A c \in 1..Len(produced[1]) :
            /\ Len(split(produced[1][c].text)) >= 50
            /\ produced[1][c].metadata.word_count = Len(split(produced[1][c].text))

\* C10 happens: chunks were produced from a document of which a run of
\* fewer than 50 words was left out
C10_Witness ==
    /\ produced # << >>
    /\ Len(produced[1]) >= 2
    /\ WordCount(document) > SumWords([c \in 1..Len(produced[1]) |-> produced[1][c].text])

(***************************************************************************)
(* query_engine.py: process_query, one step at a time                      *)
(***************************************************************************)
\* the most questions a request carries
MaxQuestions == 2

\* the replacements of clean_text; the four characters are named by code point
CleanChar(c) ==
    CASE c = "U+00A0" -> " "
      [] c = "U+2019" -> "'"
      [] c = "U+201C" -> "\""
      [] c = "U+201D" -> "\""
      [] OTHER -> c

\* a clean_text that makes the replacements and leaves the whitespace alone
clean_text_KeepsLines(text) == [i \in 1..Len(text) |-> CleanChar(text[i])]

\* clean_text: runs of whitespace become one space, then the replacements
clean_text(text) ==
    LET joined == Join(<<" ">>, split(text))
    IN  [i \in 1..Len(joined) |-> CleanChar(joined[i])]

\* process_document once the text is extracted: clean_text, the chunker, and
\* the source of every chunk set to the URL
process_document(text, blob_url) ==
    LET made == create_semantic_chunks(clean_text(text), 1)
    IN  [c \in 1..Len(made) |-> [made[c] EXCEPT !.metadata.source = blob_url]]

\* the texts the documents of the requests hold: empty, whitespace only, and
\* texts that give no chunk, one chunk, two chunks
EngineDocuments ==
    {<< >>,
     <<" ", "\n", "\t", " ">>,
     Sentence(5),
     Sentence(60),
     Sentence(60) \o <<"\n">> \o Sentence(60)}

\* the vectors the embedding model gives the chunks
ChunkEmbeddings == {<<15, 8>>, <<3, 4>>}

\* a question with the embedding encode_single_text and the intent
\* analyze_intent give it
Questions == {ReqDefinition, ReqPlain, ReqBadDimension}

QuestionLists == UNION {[1..m -> Questions] : m \in 0..MaxQuestions}

\* what can go wrong while a question is answered
Faults == {"none", "encode_single_text", "generate_content"}

ErrorAnswering == "Error answering question: "

NoRelevantInformation == "No relevant information found in the document."

ErrorGenerating == "Error generating response: "

Generated == "response.text"

\* the chunks with the embeddings of encode_texts attached
AttachEmbeddings(list, embeddings) ==
    [c \in 1..Len(list) |-> [list[c] EXCEPT !.embedding = embeddings[c]]]

\* generate_answer: its own failures become an answer string
generate_answer(context_chunks, fault) ==
    IF context_chunks = << >> THEN NoRelevantInformation
    ELSE IF fault = "generate_content" THEN ErrorGenerating
    ELSE Generated

\* an _answer_question that lets the exception out
_answer_question_Raises(store, question, fault, tie) ==
    LET found == search_similar(store.index, store.chunks_metadata, question,
                                TOP_K_RETRIEVAL, tie)
    IN  IF fault = "encode_single_text" \/ found.raised
        THEN [raised |-> TRUE, excepted |-> TRUE, answer |-> ErrorAnswering]
        ELSE [raised |-> FALSE, excepted |-> FALSE,
              answer |-> generate_answer(found.results, fault)]

\* _answer_question: the answer, whether an exception was caught on the way
\* (excepted), and whether one left the method (raised)
_answer_question(store, question, fault, tie) ==
    IF fault = "encode_single_text"
    THEN [raised |-> FALSE, excepted |-> TRUE, answer |-> ErrorAnswering]
    ELSE LET found == search_similar(store.index, store.chunks_metadata, question,
                                     TOP_K_RETRIEVAL, tie)
         IN  IF found.raised
             THEN [raised |-> FALSE, excepted |-> TRUE, answer |-> ErrorAnswering]
             ELSE [raised |-> FALSE, excepted |-> FALSE,
                   answer |-> generate_answer(found.results, fault)]

\* an except clause that leaves the store as it is
except_clause_NoCleanup(store) == store

\* the except clause of process_query: cleanup, then the exception goes on
except_clause(store) == complete_cleanup(store)

\* the store holds something, in memory or on disk
Dirty(store) ==
    \/ store.index # << >>
    \/ DOMAIN store.chunks_metadata # {}
    \/ store.index_file # NoFile
    \/ store.metadata_file # NoFile

(***************************************************************************)
(* SpecEngine: one QueryEngine serving requests one after the other; its   *)
(* store is built by __init__ from the files an earlier process left       *)
(***************************************************************************)
\* a store with nothing in memory and nothing on disk
NoStore ==
    [index |-> << >>, chunks_metadata |-> EmptyMetadata,
     index_file |-> NoFile, metadata_file |-> NoFile]

\* the chunk lists an earlier process may have saved
LeftLists == {<< >>, <<ChunkGrace>>}

InitEngine ==
    /\ \E list \in LeftLists, outcome \in SaveOutcomes :
          LET left == store_chunks(NoStore, list, outcome)
              made == _load_index([left EXCEPT !.index = << >>,
                                               !.chunks_metadata = EmptyMetadata])
          IN  /\ index = made.index
              /\ chunks_metadata = made.chunks_metadata
              /\ index_file = made.index_file
              /\ metadata_file = made.metadata_file
    /\ last = Call("__init__", << >>)
    /\ rebuilt_twice = FALSE
    /\ searched = << >>
    /\ EngineIdle
    /\ ChunkerIdle
    /\ NoCall

\* process_query is called
ProcessQuery ==
    /\ pc = "idle"
    /\ \E questions \in QuestionLists :
          request' = [documents |-> "https://host/policy.pdf", questions |-> questions]
    /\ pc' = "process_document"
    /\ doc_chunks' = << >>
    /\ answers' = << >>
    /\ run' = [NoRun EXCEPT !.outcome = "running"]
    /\ UNCHANGED <<storeVars, logVars, chunkerVars, callVars, loopVars>>

\* step 1: the download or the extraction fails, or the chunks are made
ProcessDocument ==
    /\ pc = "process_document"
    /\ \/ /\ pc' = "except"
          /\ UNCHANGED doc_chunks
          /\ UNCHANGED run
       \/ \E text \in EngineDocuments :
             /\ doc_chunks' = process_document(text, request.documents)
             /\ run' = [run EXCEPT !.blank = (strip(text) = << >>)]
             /\ pc' = "encode_texts"
    /\ UNCHANGED <<storeVars, logVars, request, answers, chunkerVars, callVars, loopVars>>

\* step 2: encode_texts fails, or every chunk gets its embedding
EncodeTexts ==
    /\ pc = "encode_texts"
    /\ \/ /\ pc' = "except"
          /\ UNCHANGED doc_chunks
       \/ \E embeddings \in [1..Len(doc_chunks) -> ChunkEmbeddings] :
             /\ doc_chunks' = AttachEmbeddings(doc_chunks, embeddings)
             /\ pc' = "store_chunks"
    /\ UNCHANGED <<storeVars, logVars, request, answers, run, chunkerVars, callVars, loopVars>>

\* step 3: clear_index, then store_chunks
StoreDocument ==
    /\ pc = "store_chunks"
    /\ \E outcome \in SaveOutcomes :
          SetStore(store_chunks(clear_index(Store), doc_chunks, outcome))
    /\ pc' = "questions"
    /\ run' = [run EXCEPT !.ingested = TRUE]
    /\ UNCHANGED <<logVars, request, doc_chunks, answers, chunkerVars, callVars, loopVars>>

\* step 4: the next question is answered
AnswerQuestion ==
    /\ pc = "questions"
    /\ Len(answers) < Len(request.questions)
    /\ \E fault \in Faults, tie \in TieOrders :
          LET got == _answer_question(Store, request.questions[Len(answers) + 1], fault, tie)
          IN  IF got.raised
              THEN /\ pc' = "except"
                   /\ UNCHANGED <<answers, run>>
              ELSE /\ answers' = Append(answers, got.answer)
                   /\ run' = [run EXCEPT !.excepted = Append(@, got.excepted)]
                   /\ UNCHANGED pc
    /\ UNCHANGED <<storeVars, logVars, request, doc_chunks, chunkerVars, callVars, loopVars>>

\* the questions are done: complete_cleanup, and the answers are returned
ReturnAnswers ==
    /\ pc = "questions"
    /\ Len(answers) = Len(request.questions)
    /\ SetStore(complete_cleanup(Store))
    /\ pc' = "idle"
    /\ run' = [run EXCEPT !.outcome = "returned", !.dirty = Dirty(Store)]
    /\ UNCHANGED <<logVars, request, doc_chunks, answers, chunkerVars, callVars, loopVars>>

\* an exception reached the except clause: cleanup, and process_query raises
RaiseFailure ==
    /\ pc = "except"
    /\ SetStore(except_clause(Store))
    /\ pc' = "idle"
    /\ run' = [run EXCEPT !.outcome = "raised", !.dirty = Dirty(Store)]
    /\ UNCHANGED <<logVars, request, doc_chunks, answers, chunkerVars, callVars, loopVars>>

NextEngine ==
    \/ ProcessQuery
    \/ ProcessDocument
    \/ EncodeTexts
    \/ StoreDocument
    \/ AnswerQuestion
    \/ ReturnAnswers
    \/ RaiseFailure

SpecEngine == InitEngine /\ [][NextEngine]_vars

\* C5: every run of process_query, returning or raising, ends with no
\* vector in the index, no metadata and neither file on disk
C5_RunEndsPurged ==
    (pc = "idle" /\ run.outcome \in {"returned", "raised"}) =>
        /\ index = << >>
        /\ DOMAIN chunks_metadata = {}
        /\ index_file = NoFile
        /\ metadata_file = NoFile

\* C5 happens: a run raised while the store held something
C5_Witness ==
    /\ pc = "idle"
    /\ run.outcome = "raised"
    /\ run.dirty

\* C6: once the document is stored the run returns, with one answer for each
\* question in order; a question whose answering raised an exception has the
\* placeholder as its answer, and no other question has it
C6_OneAnswerPerQuestion ==
    /\ run.ingested => run.outcome # "raised" /\ pc # "except"
    /\ run.ingested =>
          /\ Len(answers) <= Len(request.questions)
          /\ Len(run.excepted) = Len(answers)
          /\ \A i \in 1..Len(answers) : run.excepted[i] <=> answers[i] = ErrorAnswering
    /\ run.outcome = "returned" => Len(answers) = Len(request.questions)

\* C6 happens: the first question raised an exception and the second one was
\* answered from the document
C6_Witness ==
    /\ run.outcome = "returned"
    /\ Len(answers) = 2
    /\ run.excepted[1]
    /\ answers[2] = Generated

(***************************************************************************)
(* The chunks of each section of the document of SpecChunk                 *)
(***************************************************************************)
\* the sections of the document
DocSections == _split_by_semantic_boundaries(document)

\* the chunks _create_overlapping_chunks makes of section k
SectionChunks(k) == _create_overlapping_chunks(DocSections[k], 1)

\* the texts of the chunks create_semantic_chunks returned
ProducedTexts == {produced[1][c].text : c \in 1..Len(produced[1])}

\* C11: in a section that yields at least one chunk every sentence of the
\* section is whole in at least one of the section's chunks
C11_NoSentenceOmitted ==
    produced # << >> =>
        \A k \in 1..Len(DocSections) :
            SectionChunks(k) # << >> =>
                \A s \in 1..Len(_split_into_sentences(DocSections[k].text)) :
                    \E c \in 1..Len(SectionChunks(k)) :
                        /\ SectionChunks(k)[c].text \in ProducedTexts
                        /\ Contains(_split_into_sentences(DocSections[k].text)[s],
                                    SectionChunks(k)[c].text)

\* the sentences a chunk text is made of
ChunkSentences(chunk) == _split_into_sentences(chunk.text)

\* the words of the last n sentences of a list
SuffixWords(sentences, n) ==
    SumWords(SubSeq(sentences, Len(sentences) - n + 1, Len(sentences)))

\* the longest suffix of a list of sentences with at most budget words
LongestSuffix(sentences, budget) ==
    LET n == CHOOSE n \in 0..Len(sentences) :
                 /\ SuffixWords(sentences, n) <= budget
                 /\ \A m \in (n + 1)..Len(sentences) : SuffixWords(sentences, m) > budget
    IN  SubSeq(sentences, Len(sentences) - n + 1, Len(sentences))

\* C12: of two chunks of a section emitted one after the other, the later
\* one begins with the longest suffix of the sentences of the earlier one
\* that has at most 20 words
C12_LaterBeginsWithOverlap ==
    produced # << >> =>
        \A k \in 1..Len(DocSections) :
            \A c \in 1..(Len(SectionChunks(k)) - 1) :
                LET overlap == LongestSuffix(ChunkSentences(SectionChunks(k)[c]), 20)
                    later   == ChunkSentences(SectionChunks(k)[c + 1])
                IN  /\ SectionChunks(k)[c].text \in ProducedTexts
                    /\ SectionChunks(k)[c + 1].text \in ProducedTexts
                    /\ Len(later) >= Len(overlap)
                    /\ SubSeq(later, 1, Len(overlap)) = overlap

\* C13: a document that is empty or whitespace only gives no chunk; after it
\* is stored the index is empty, search_similar returns the empty sequence
\* for every query and every k without raising, and each question is answered
\* from no context
C13_BlankDocument ==
    run.blank =>
        /\ doc_chunks = << >>
        /\ run.ingested =>
              /\ index = << >>
              /\ \A req \in SearchRequests, top_k \in TopKs, tie \in TieOrders :
                    LET res == search_similar(index, chunks_metadata, req, top_k, tie)
                    IN  ~ res.raised /\ res.results = << >>
              /\ \A i \in 1..Len(answers) :
                    answers[i] = (IF run.excepted[i] THEN ErrorAnswering
                                  ELSE NoRelevantInformation)
              /\ pc # "except"

\* C13 happens: a blank document was stored over the metadata an earlier
\* process left, and a question was answered
C13_Witness ==
    /\ run.blank
    /\ run.ingested
    /\ pc = "questions"
    /\ DOMAIN chunks_metadata # {}
    /\ Len(answers) >= 1
    /\ ~ run.excepted[1]

\* the results of "What is the grace period?" with intent definition on a
\* store that holds the chunks produced, each with the given embedding
ExampleSearch(embeddings, tie) ==
    LET held == store_chunks(NoStore, AttachEmbeddings(produced[1], embeddings), "saved")
    IN  search_similar(held.index, held.chunks_metadata,
                       [ReqDefinition EXCEPT !.query_embedding = <<4, 3>>],
                       TOP_K_RETRIEVAL, tie).results

\* C14: the example document gives a chunk of the DEFINITIONS section and a
\* chunk of the COVERAGE section, and the question "What is the grace
\* period?" with intent definition retrieves the first above the second
C14_ExampleRanksDefinitionsFirst ==
    (document = ExampleDocument /\ produced # << >>) =>
        /\ \E c \in 1..Len(produced[1]) : produced[1][c].metadata.section = <<"D","E","F","I","N","I","T","I","O","N","S">>
        /\ \E c \in 1..Len(produced[1]) : produced[1][c].metadata.section = <<"C","O","V","E","R","A","G","E">>
        /\ \A embeddings \in [1..Len(produced[1]) -> ChunkEmbeddings], tie \in TieOrders :
              \E d, c \in 1..Len(ExampleSearch(embeddings, tie)) :
                  /\ d < c
                  /\ ExampleSearch(embeddings, tie)[d].chunk.metadata.section = <<"D","E","F","I","N","I","T","I","O","N","S">>
                  /\ ExampleSearch(embeddings, tie)[c].chunk.metadata.section = <<"C","O","V","E","R","A","G","E">>

\* ---------------------------------------------------------------------
\* SpecClassify: detect_section_type applied to texts that mix the
\* keywords of several section types, in upper and lower case.
\* ---------------------------------------------------------------------

Phrases == <<<<"S","h","a","l","l"," ","M","e","a","n">>, <<"N","O","T"," ","C","O","V","E","R","E","D">>, <<"d","o","e","s"," ","n","o","t"," ","c","o","v","e","r">>, <<"u","n","l","i","m","i","t","e","d">>,
             <<"C","l","a","i","m","s">>, <<"c","o","f","f","e","e">>, <<"M","U","S","T">>, <<"p","o","l","i","c","y">>>>

\* the phrases picked, in the order of Phrases, separated by one space
PhraseText(picked) ==
    LET order == SortedSeq(picked)
    IN  Join(<<" ">>, [k \in 1..Len(order) |-> Phrases[order[k]]])

SectionTexts == {PhraseText(picked) : picked \in SUBSET (1..Len(Phrases))}

InitClassify ==
    /\ StoreNew
    /\ EngineIdle
    /\ ChunkerIdle
    /\ args \in {[text |-> text] : text \in SectionTexts}
    /\ result = << >>

DetectSectionType ==
    /\ result' = <<detect_section_type(args.text)>>
    /\ UNCHANGED <<storeVars, logVars, engineVars, chunkerVars, args, loopVars>>

NextClassify == DetectSectionType

SpecClassify == InitClassify /\ [][NextClassify]_vars

SectionTypes == <<"definitions", "coverage", "exclusions", "limits",
                  "claims", "premiums", "conditions">>

Keywords(section_type) ==
    CASE section_type = "definitions" -> KwDefinitions
      [] section_type = "coverage" -> KwCoverage
      [] section_type = "exclusions" -> KwExclusions
      [] section_type = "limits" -> KwLimits
      [] section_type = "claims" -> KwClaims
      [] section_type = "premiums" -> KwPremiums
      [] section_type = "conditions" -> KwConditions

\* the positions in SectionTypes of the types with a keyword in the text,
\* letter case ignored
Hits(text) ==
    {k \in 1..Len(SectionTypes) :
        \E keyword \in Keywords(SectionTypes[k]) : Contains(lower(keyword), lower(text))}

FirstHit(text) == CHOOSE k \in Hits(text) : \A other \in Hits(text) : k <= other

\* C15: detect_section_type returns the first type, in the order
\* definitions, coverage, exclusions, limits, claims, premiums, conditions,
\* one of whose keywords occurs in the text whatever the letter case, and
\* policy_clause when none does; the value is one of these eight, and is
\* fixed by the text alone.
C15_FirstTypeInOrder ==
    result # << >> =>
        /\ result[1] = IF Hits(args.text) = {} THEN "policy_clause"
                       ELSE SectionTypes[FirstHit(args.text)]
        /\ result[1] \in {SectionTypes[k] : k \in 1..Len(SectionTypes)} \cup {"policy_clause"}

\* a text in capitals with keywords of coverage, exclusions and conditions
C15_Witness ==
    /\ result = <<"coverage">>
    /\ args.text # lower(args.text)
    /\ {2, 3, 7} \subseteq Hits(args.text)
    /\ 1 \notin Hits(args.text)

\* ---------------------------------------------------------------------
\* SpecScore: _calculate_enhanced_score applied to raw similarities of
\* both signs, with and without texts and intent.
\* ---------------------------------------------------------------------

\* inner products of unit vectors, in units of 1 / ScoreUnit
RawScores ==
    {0 - ScoreUnit, 0 - SIMILARITY_THRESHOLD, -1, 0, 1,
     SIMILARITY_THRESHOLD, 3 * SIMILARITY_THRESHOLD, ScoreUnit}

ScoredTypes == {"definitions", "coverage", "exclusions", "claims", "policy_clause"}

ScoredMetadata ==
    {<< >>} \cup
    {[type |-> type, has_numbers |-> n, has_definitions |-> d, is_heading |-> h] :
        type \in ScoredTypes, n \in BOOLEAN, d \in BOOLEAN, h \in BOOLEAN}

\* query_text and chunk_text; the empty strings stand for None
ScoredTexts ==
    {[query_text |-> << >>, chunk_text |-> << >>],
     [query_text |-> <<"W","h","a","t"," ","i","s"," ","t","h","e"," ","g","r","a","c","e"," ","p","e","r","i","o","d","?">>, chunk_text |-> <<"G","r","a","c","e"," ","p","e","r","i","o","d"," ","m","e","a","n","s"," ","3","0"," ","d","a","y","s",".">>],
     [query_text |-> <<"H","o","w"," ","m","a","n","y"," ","d","a","y","s"," ","i","s"," ","t","h","e"," ","w","a","i","t","i","n","g"," ","p","e","r","i","o","d">>, chunk_text |-> <<"T","h","e"," ","w","a","i","t","i","n","g"," ","p","e","r","i","o","d"," ","i","s"," ","3","0"," ","d","a","y","s",".">>],
     [query_text |-> <<"I","s"," ","m","a","t","e","r","n","i","t","y"," ","c","o","v","e","r","e","d","?">>, chunk_text |-> <<"G","r","a","c","e"," ","p","e","r","i","o","d"," ","m","e","a","n","s"," ","3","0"," ","d","a","y","s",".">>]}

\* None, and intents analyze_intent can return: intent_type comes from the
\* embeddings, expects_numbers from the words of the question
ScoredIntents ==
    {<< >>,
     <<Intent("definition", FALSE)>>, <<Intent("definition", TRUE)>>,
     <<Intent("time_period", TRUE)>>, <<Intent("time_period", FALSE)>>,
     <<Intent("coverage_check", TRUE)>>, <<Intent("limits", FALSE)>>,
     <<Intent("general", TRUE)>>}

InitScore ==
    /\ StoreNew
    /\ EngineIdle
    /\ ChunkerIdle
    /\ args \in {[base_score |-> raw, metadata |-> metadata, query_text |-> texts.query_text,
                  chunk_text |-> texts.chunk_text, query_intent |-> intent] :
                    raw \in RawScores, metadata \in ScoredMetadata,
                    texts \in ScoredTexts, intent \in ScoredIntents}
    /\ result = << >>

CalculateEnhancedScore ==
    /\ result' = <<_calculate_enhanced_score(args.base_score, args.metadata, args.query_text,
                                             args.chunk_text, args.query_intent)>>
    /\ UNCHANGED <<storeVars, logVars, engineVars, chunkerVars, args, loopVars>>

NextScore == CalculateEnhancedScore

SpecScore == InitScore /\ [][NextScore]_vars

\* C16 as stated: the boosted score is never below the raw similarity,
\* negative raw similarities included.
C16_AsStated == result # << >> => result[1] >= args.base_score

\* C16 amended: every boost multiplies by at least 1, so the boosted score
\* is at least the raw similarity when that is not negative, and at most
\* the raw similarity when it is negative.
C16_BoostKeepsSign ==
    result # << >> =>
        /\ args.base_score >= 0 => result[1] >= args.base_score
        /\ args.base_score < 0 => result[1] <= args.base_score

\* a negative raw similarity pushed further down by the boosts
C16_Witness ==
    /\ result # << >>
    /\ args.base_score < 0
    /\ result[1] < args.base_score

ScoreOf(raw) ==
    _calculate_enhanced_score(raw, args.metadata, args.query_text, args.chunk_text,
                              args.query_intent)

\* C17: with metadata, query text, chunk text and intent fixed, a raw
\* similarity that is not larger gives a score that is not larger.
C17_NonDecreasing ==
    result # << >> =>
        \A raw \in RawScores : raw <= args.base_score => ScoreOf(raw) <= result[1]

\* a boosted score strictly above the boosted score of a smaller raw similarity
C17_Witness ==
    /\ result # << >>
    /\ args.query_text # << >>
    /\ args.query_intent # << >>
    /\ result[1] > args.base_score
    /\ \E raw \in RawScores : raw < args.base_score /\ raw > 0 /\ ScoreOf(raw) < result[1]

\* the intent says a numeric answer is expected, and the chunk has numbers
ExpectsNumbers(metadata, query_intent) ==
    /\ query_intent # << >>
    /\ Get(query_intent[1], "expects_numbers", FALSE)
    /\ Get(metadata, "has_numbers", FALSE)

\* C20: the intent block multiplies by 1.3 once more exactly when the
\* intent's expects_numbers is true and the metadata's has_numbers is true.
C20_NumericBoostOnExpectsNumbers ==
    result # << >> =>
        LET matched == SectionMatch(args.base_score, args.metadata, args.query_intent)
        IN  IntentAlignment(args.base_score, args.metadata, args.query_intent)
                = IF ExpectsNumbers(args.metadata, args.query_intent)
                  THEN Mul(matched, 13) ELSE matched

\* ---------------------------------------------------------------------
\* SpecPersist: rebuilds whose save succeeds or fails in every way, purges,
\* and new stores made from the files left behind.
\* ---------------------------------------------------------------------

StoreChunksAnyOutcome ==
    \E list \in StoreLists, outcome \in AllSaveOutcomes :
        /\ SetStore(store_chunks(Store, list, outcome))
        /\ Log(Call("store_chunks", list))
        /\ UNCHANGED <<engineVars, chunkerVars, callVars, loopVars>>

NextPersist == StoreChunksAnyOutcome \/ ClearIndex \/ CompleteCleanup \/ NewVectorStore

SpecPersist == Init /\ [][NextPersist]_vars

\* both files exist and both can be read
PairReadable ==
    /\ index_file # NoFile /\ metadata_file # NoFile
    /\ index_file[1].valid /\ metadata_file[1].valid

\* C18: a failed write in _save_index leaves the index and the metadata in
\* memory as store_chunks built them, exactly as a successful save does;
\* a new store whose two files are not both present and readable has an
\* empty index and empty metadata, and one whose files are both readable
\* has the contents of both.
C18_PersistenceFailuresNonFatal ==
    /\ (last.op = "store_chunks" /\ StoredVectors(last.chunks) # << >>) =>
          /\ index = StoredVectors(last.chunks)
          /\ \A key \in 0..(Len(index) - 1) :
                /\ key \in DOMAIN chunks_metadata
                /\ chunks_metadata[key] = FreshMetadata(last.chunks)[key]
    /\ \A list \in StoreLists, outcome \in AllSaveOutcomes :
          LET failed == store_chunks(Store, list, outcome)
              saved  == store_chunks(Store, list, "saved")
          IN  /\ failed.index = saved.index
              /\ failed.chunks_metadata = saved.chunks_metadata
    /\ last.op = "__init__" =>
          IF PairReadable
          THEN /\ index = index_file[1].vectors
               /\ chunks_metadata = JsonLoadKeys(metadata_file[1].data)
          ELSE /\ index = << >>
               /\ chunks_metadata = EmptyMetadata

\* a new store finds the index file of a save whose json.dump failed
C18_Witness ==
    /\ last.op = "__init__"
    /\ index_file # NoFile /\ metadata_file # NoFile
    /\ index_file[1].valid /\ index_file[1].vectors # << >>
    /\ ~ metadata_file[1].valid
    /\ index = << >> /\ chunks_metadata = EmptyMetadata

\* ---------------------------------------------------------------------
\* LocalIntentAnalyzer (src/services/intent_analyzer.py). The sentence
\* encoder is outside the program: the embeddings of the patterns and of
\* the question are inputs, unit vectors in units of 1/3.
\* ---------------------------------------------------------------------

\* the keys of intent_patterns, in insertion order
IntentNames ==
    <<"definition", "specific_value", "coverage_check", "exclusion_check",
      "time_period", "limits">>

\* np.max(np.dot(pattern_embeddings, question_embedding))
MaxSimilarity(embeddings, question_embedding) ==
    LET similarities == {InnerProduct(embeddings[p], question_embedding) : p \in 1..Len(embeddings)}
    IN  CHOOSE best \in similarities : \A other \in similarities : other <= best

\* an intent loop that never raises best_score
RECURSIVE IntentLoop_ScoreNotKept(_, _, _, _)
IntentLoop_ScoreNotKept(pattern_embeddings, question_embedding, k, best) ==
    IF k > Len(IntentNames) THEN best
    ELSE LET max_similarity == MaxSimilarity(pattern_embeddings[IntentNames[k]], question_embedding)
         IN  IntentLoop_ScoreNotKept(pattern_embeddings, question_embedding, k + 1,
                        IF max_similarity > best.best_score
                        THEN [best EXCEPT !.best_intent = IntentNames[k]]
                        ELSE best)

\* the loop over pattern_embeddings.items(), from intent k on
RECURSIVE IntentLoop(_, _, _, _)
IntentLoop(pattern_embeddings, question_embedding, k, best) ==
    IF k > Len(IntentNames) THEN best
    ELSE LET max_similarity == MaxSimilarity(pattern_embeddings[IntentNames[k]], question_embedding)
         IN  IntentLoop(pattern_embeddings, question_embedding, k + 1,
                        IF max_similarity > best.best_score
                        THEN [best_intent |-> IntentNames[k], best_score |-> max_similarity]
                        ELSE best)

InsuranceConcepts ==
    <<<<"g","r","a","c","e"," ","p","e","r","i","o","d">>, <<"w","a","i","t","i","n","g"," ","p","e","r","i","o","d">>, <<"c","o","o","l","i","n","g"," ","p","e","r","i","o","d">>,
      <<"p","r","e","-","e","x","i","s","t","i","n","g">>, <<"m","a","t","e","r","n","i","t","y">>, <<"p","r","e","g","n","a","n","c","y">>,
      <<"d","e","d","u","c","t","i","b","l","e">>, <<"c","o","-","p","a","y">>, <<"e","x","c","e","s","s">>,
      <<"s","u","m"," ","i","n","s","u","r","e","d">>, <<"c","o","v","e","r","a","g","e">>, <<"l","i","m","i","t">>,
      <<"h","o","s","p","i","t","a","l","i","z","a","t","i","o","n">>, <<"o","u","t","p","a","t","i","e","n","t">>, <<"c","a","s","h","l","e","s","s">>,
      <<"c","l","a","i","m">>, <<"p","r","e","m","i","u","m">>, <<"p","o","l","i","c","y">>>>

_extract_key_concepts(question) ==
    LET question_lower == lower(question)
        found == SortedSeq({k \in 1..Len(InsuranceConcepts) :
                              Contains(InsuranceConcepts[k], question_lower)})
    IN  [k \in 1..Len(found) |-> InsuranceConcepts[found[k]]]

NumericalIndicators ==
    {<<"h","o","w"," ","m","u","c","h">>, <<"h","o","w"," ","m","a","n","y">>, <<"h","o","w"," ","l","o","n","g">>, <<"w","h","a","t"," ","i","s"," ","t","h","e"," ","a","m","o","u","n","t">>, <<"w","h","a","t"," ","i","s"," ","t","h","e"," ","l","i","m","i","t">>,
     <<"d","a","y","s">>, <<"m","o","n","t","h","s">>, <<"y","e","a","r","s">>, <<"p","e","r","c","e","n","t","a","g","e">>}

_expects_numbers(question) == AnyIn(NumericalIndicators, lower(question))

_get_looking_for(intent_type, question) ==
    CASE intent_type = "definition" -> "explanation or meaning"
      [] intent_type = "specific_value" -> "exact numbers or amounts"
      [] intent_type = "coverage_check" -> "what is covered"
      [] intent_type = "exclusion_check" -> "what is excluded"
      [] intent_type = "time_period" -> "duration or time limits"
      [] intent_type = "limits" -> "maximum amounts or limits"
      [] OTHER -> "general information"

\* analyze_intent; question_embedding is self.model.encode([question])[0]
analyze_intent(pattern_embeddings, question, question_embedding) ==
    LET best == IntentLoop(pattern_embeddings, question_embedding, 1,
                           [best_intent |-> "general", best_score |-> 0])
    IN  [intent_type |-> best.best_intent,
         looking_for |-> _get_looking_for(best.best_intent, question),
         expects_numbers |-> _expects_numbers(question),
         key_concepts |-> _extract_key_concepts(question),
         confidence |-> best.best_score]

\* ---------------------------------------------------------------------
\* SpecIntent: analyze_intent applied to every unit question embedding,
\* under three tables of pattern embeddings.
\* ---------------------------------------------------------------------

IntentDimension == 3

\* the vectors of length 1 with coordinates in thirds
UnitVectors ==
    {v \in [1..IntentDimension -> -3..3] : SumSq(v) = 9}

\* patterns pointing all ways; specific_value and time_period share the
\* pattern "How long is the waiting period"
SpreadPatterns ==
    [definition      |-> << <<3, 0, 0>>, <<2, 2, 1>>, <<2, 1, 2>>, <<3, 0, 0>>, <<2, 2, 1>> >>,
     specific_value  |-> << <<0, 3, 0>>, <<2, 2, -1>>, <<1, 2, 2>>, <<0, 3, 0>>, <<-1, 2, 2>> >>,
     coverage_check  |-> << <<-3, 0, 0>>, <<-2, 2, 1>>, <<-2, 1, 2>>, <<-2, 2, -1>>, <<-3, 0, 0>> >>,
     exclusion_check |-> << <<0, -3, 0>>, <<-2, -2, 1>>, <<-2, -1, -2>>, <<-1, -2, -2>>, <<0, -3, 0>> >>,
     time_period     |-> << <<1, 2, 2>>, <<0, 0, 3>>, <<1, -2, 2>>, <<-1, -2, 2>>, <<0, 0, 3>> >>,
     limits          |-> << <<0, 0, -3>>, <<1, 2, -2>>, <<2, -1, -2>>, <<1, -2, -2>>, <<0, 0, -3>> >>]

\* every pattern on one side: some questions have no positive similarity
HalfSpacePatterns ==
    [definition      |-> << <<3, 0, 0>>, <<3, 0, 0>>, <<2, 2, 1>>, <<2, 2, 1>>, <<3, 0, 0>> >>,
     specific_value  |-> << <<2, 1, 2>>, <<2, 1, 2>>, <<1, 2, 2>>, <<2, 1, 2>>, <<1, 2, 2>> >>,
     coverage_check  |-> << <<2, -2, 1>>, <<2, -1, 2>>, <<2, -2, 1>>, <<2, -1, 2>>, <<2, -2, 1>> >>,
     exclusion_check |-> << <<2, 2, -1>>, <<2, 1, -2>>, <<2, 2, -1>>, <<2, 1, -2>>, <<2, 2, -1>> >>,
     time_period     |-> << <<1, 2, 2>>, <<1, 2, 2>>, <<1, 2, 2>>, <<1, 2, 2>>, <<1, 2, 2>> >>,
     limits          |-> << <<2, -2, -1>>, <<2, -1, -2>>, <<1, -2, -2>>, <<2, -2, -1>>, <<2, -1, -2>> >>]

\* every intent with the same patterns
TiedPatterns ==
    [name \in {IntentNames[k] : k \in 1..Len(IntentNames)} |->
        << <<3, 0, 0>>, <<0, 3, 0>>, <<2, 2, 1>>, <<1, 2, 2>>, <<0, 3, 0>> >>]

PatternTables == {SpreadPatterns, HalfSpacePatterns, TiedPatterns}

IntentQuestions ==
    {<<"H","o","w"," ","l","o","n","g"," ","i","s"," ","t","h","e"," ","w","a","i","t","i","n","g"," ","p","e","r","i","o","d">>, <<"W","h","a","t"," ","i","s"," ","t","h","e"," ","c","o","o","l","i","n","g"," ","p","e","r","i","o","d","?">>}

InitIntent ==
    /\ StoreNew
    /\ EngineIdle
    /\ ChunkerIdle
    /\ args \in {[pattern_embeddings |-> table, question |-> question,
                  question_embedding |-> embedding] :
                    table \in PatternTables, question \in IntentQuestions,
                    embedding \in UnitVectors}
    /\ result = << >>

AnalyzeIntent ==
    /\ result' = <<analyze_intent(args.pattern_embeddings, args.question,
                                  args.question_embedding)>>
    /\ UNCHANGED <<storeVars, logVars, engineVars, chunkerVars, args, loopVars>>

NextIntent == AnalyzeIntent

SpecIntent == InitIntent /\ [][NextIntent]_vars

\* the highest of the six maximum similarities
HighestMaximum ==
    LET maxima == {MaxSimilarity(args.pattern_embeddings[IntentNames[k]], args.question_embedding) :
                      k \in 1..Len(IntentNames)}
    IN  CHOOSE best \in maxima : \A other \in maxima : other <= best

PickText(words, picked) ==
    LET order == SortedSeq(picked)
    IN  Join(<<" ">>, [k \in 1..Len(order) |-> words[order[k]]])

QueryWords == <<<<"w","h","a","t"," ","i","s">>, <<"i","n","c","l","u","d","e","d">>, <<"e","x","c","e","p","t","i","o","n">>, <<"d","u","r","a","t","i","o","n">>, <<"m","i","n","i","m","u","m">>, <<"c","l","a","i","m">>>>

ChunkWords == <<<<"m","e","a","n","s">>, <<"r","e","i","m","b","u","r","s","e">>, <<"d","o","e","s"," ","n","o","t">>, <<"7">>, <<"y","e","a","r","s">>, <<"i","n","r">>, <<"s","e","t","t","l","e","m","e","n","t">>>>

BoostedSections == {"definitions", "coverage"}

InitBoost ==
    /\ StoreNew
    /\ EngineIdle
    /\ ChunkerIdle
    /\ args \in {[score |-> ScoreUnit, query_lower |-> PickText(QueryWords, asked),
                  chunk_lower |-> PickText(ChunkWords, held), section_type |-> section_type] :
                    asked \in SUBSET (1..Len(QueryWords)), held \in SUBSET (1..Len(ChunkWords)),
                    section_type \in BoostedSections}
    /\ result = << >>

ApplyInsuranceQueryBoosts ==
    /\ result' = <<_apply_insurance_query_boosts(args.score, args.query_lower, args.chunk_lower,
                                                 args.section_type)>>
    /\ UNCHANGED <<storeVars, logVars, engineVars, chunkerVars, args, loopVars>>

NextBoost == ApplyInsuranceQueryBoosts

SpecBoost == InitBoost /\ [][NextBoost]_vars

\* the cue phrases, response terms and factor (in tenths) of the five groups
PatternGroups ==
    << [cues |-> {<<"d","e","f","i","n","i","t","i","o","n">>, <<"d","e","f","i","n","e">>, <<"w","h","a","t"," ","i","s">>, <<"m","e","a","n","i","n","g">>},
        terms |-> {<<"m","e","a","n","s">>, <<"d","e","f","i","n","i","t","i","o","n">>}, tenths |-> 22],
       [cues |-> {<<"c","o","v","e","r","e","d">>, <<"c","o","v","e","r","a","g","e">>, <<"b","e","n","e","f","i","t">>, <<"i","n","c","l","u","d","e">>},
        terms |-> {<<"c","o","v","e","r","e","d">>, <<"c","o","v","e","r","a","g","e">>, <<"b","e","n","e","f","i","t">>, <<"i","n","c","l","u","d","e">>, <<"p","a","y">>, <<"r","e","i","m","b","u","r","s","e">>},
        tenths |-> 18],
       [cues |-> {<<"e","x","c","l","u","d","e","d">>, <<"e","x","c","l","u","s","i","o","n">>, <<"n","o","t"," ","c","o","v","e","r","e","d">>, <<"e","x","c","e","p","t","i","o","n">>},
        terms |-> {<<"e","x","c","l","u","d","e","d">>, <<"e","x","c","l","u","s","i","o","n">>, <<"n","o","t"," ","c","o","v","e","r","e","d">>, <<"e","x","c","e","p","t","i","o","n">>, <<"d","o","e","s"," ","n","o","t">>},
        tenths |-> 19],
       [cues |-> {<<"d","a","y","s">>, <<"m","o","n","t","h","s">>, <<"y","e","a","r","s">>, <<"p","e","r","i","o","d">>, <<"d","u","r","a","t","i","o","n">>},
        terms |-> {<<"d","a","y","s">>, <<"m","o","n","t","h","s">>, <<"y","e","a","r","s">>}, tenths |-> 17],
       [cues |-> {<<"l","i","m","i","t">>, <<"a","m","o","u","n","t">>, <<"m","a","x","i","m","u","m">>, <<"m","i","n","i","m","u","m">>, <<"s","u","m">>},
        terms |-> {<<"l","i","m","i","t">>, <<"a","m","o","u","n","t">>, <<"m","a","x","i","m","u","m">>, <<"m","i","n","i","m","u","m">>, <<"s","u","m">>, <<"u","s","d">>, <<"i","n","r">>, <<"$">>},
        tenths |-> 16] >>

CueInQuery(k) == AnyIn(PatternGroups[k].cues, args.query_lower)

TermInChunk(k) == AnyIn(PatternGroups[k].terms, args.chunk_lower)

\* one factor per group, applied when both sides match
RECURSIVE OneFactorPerGroup(_, _)
OneFactorPerGroup(score, k) ==
    IF k > Len(PatternGroups) THEN score
    ELSE OneFactorPerGroup(Boost(score, CueInQuery(k) /\ TermInChunk(k), PatternGroups[k].tenths),
                           k + 1)

\* C21 as stated: each of the five groups multiplies by its one factor
\* exactly when a cue is in the query and a response term is in the chunk,
\* and contributes nothing else.
C21_AsStated ==
    result # << >> =>
        result[1] = TermLoop(OneFactorPerGroup(args.score, 1), args.query_lower,
                             args.chunk_lower, 1)

DigitInChunk == \E i \in 1..Len(args.chunk_lower) : args.chunk_lower[i] \in DigitChars

\* as OneFactorPerGroup, but the definition group gives 1.8 more when its cue
\* is in the query and the section type is definitions, and the time-period
\* group also needs a digit in the chunk
RECURSIVE FactorsPerGroup(_, _)
FactorsPerGroup(score, k) ==
    IF k > Len(PatternGroups) THEN score
    ELSE LET both  == CueInQuery(k) /\ TermInChunk(k) /\ (k = 4 => DigitInChunk)
             first == Boost(score, both, PatternGroups[k].tenths)
         IN  FactorsPerGroup(
                 Boost(first, k = 1 /\ CueInQuery(1) /\ args.section_type = "definitions", 18),
                 k + 1)

\* C21 amended: the coverage, exclusion and limit groups multiply by 1.8,
\* 1.9 and 1.6 exactly when both sides match; the time-period group by 1.7
\* exactly when both sides match and the chunk has a digit; the definition
\* group by 2.2 exactly when both sides match, and by 1.8 more exactly when
\* its cue is in the query and the section type is definitions.
C21_GroupFactors ==
    result # << >> =>
        result[1] = TermLoop(FactorsPerGroup(args.score, 1), args.query_lower,
                             args.chunk_lower, 1)

\* the definition cue with no response term, in a definitions section, and
\* the time-period cue and term with no digit
C21_Witness ==
    /\ result # << >>
    /\ CueInQuery(1) /\ ~ TermInChunk(1) /\ args.section_type = "definitions"
    /\ CueInQuery(4) /\ TermInChunk(4) /\ ~ DigitInChunk
    /\ CueInQuery(5) /\ TermInChunk(5)
    /\ result[1] = Mul(Mul(args.score, 18), 16)

\* ---------------------------------------------------------------------
\* SpecPhrase: _apply_phrase_matching_boost applied to lowercased queries
\* and to chunks that hold parts of them.
\* ---------------------------------------------------------------------

PhraseQueries ==
    {<<"w","h","a","t"," ","i","s"," ","t","h","e"," ","g","r","a","c","e"," ","p","e","r","i","o","d","?">>, <<"g","r","a","c","e"," ","p","e","r","i","o","d">>,
     <<"i","s"," ","m","a","t","e","r","n","i","t","y"," ","c","o","v","e","r","e","d",","," ","a","n","d"," ","w","h","a","t"," ","i","s"," ","e","x","c","l","u","d","e","d">>, <<"p","r","e","m","i","u","m">>}

PhraseChunkWords ==
    <<<<"w","h","a","t"," ","i","s">>, <<"t","h","e"," ","g","r","a","c","e"," ","p","e","r","i","o","d">>, <<"g","r","a","c","e">>, <<"p","e","r","i","o","d"," ","m","e","a","n","s">>, <<"m","a","t","e","r","n","i","t","y"," ","c","o","v","e","r","e","d">>,
      <<"a","n","d"," ","w","h","a","t"," ","i","s"," ","e","x","c","l","u","d","e","d">>>>

InitPhrase ==
    /\ StoreNew
    /\ EngineIdle
    /\ ChunkerIdle
    /\ args \in {[score |-> ScoreUnit, query_lower |-> query,
                  chunk_lower |-> PickText(PhraseChunkWords, held)] :
                    query \in PhraseQueries, held \in SUBSET (1..Len(PhraseChunkWords))}
    /\ result = << >>

ApplyPhraseMatchingBoost ==
    /\ result' = <<_apply_phrase_matching_boost(args.score, args.query_lower, args.chunk_lower)>>
    /\ UNCHANGED <<storeVars, logVars, engineVars, chunkerVars, args, loopVars>>

NextPhrase == ApplyPhraseMatchingBoost

SpecPhrase == InitPhrase /\ [][NextPhrase]_vars

\* two words of the query that follow one another, with the whitespace
\* between them, occur in the chunk; every longer sequence that occurs
\* starts with such a pair
SharedSequence ==
    \E i \in RunStarts(args.query_lower), j \in RunStarts(args.query_lower) :
        /\ Linked(args.query_lower, i, j)
        /\ Contains(SubSeq(args.query_lower, i, RunStop(args.query_lower, j)), args.chunk_lower)

\* C22: when some sequence of two or more consecutive words of the query
\* occurs in the chunk the score is multiplied by 1.3 at least once, and
\* when none occurs the score is unchanged.
C22_SharedSequenceBoosts ==
    result # << >> =>
        IF SharedSequence THEN result[1] >= Mul(args.score, 13)
        ELSE result[1] = args.score

(***************************************************************************)
(* SpecOverlap: two requests to the endpoint of main.py while the one      *)
(* module-level QueryEngine serves them. Each request is a process_query   *)
(* coroutine on the event loop of the server; a coroutine gives the loop   *)
(* to another one only where an await suspends.                            *)
(***************************************************************************)
Runs == {1, 2}

Other(r) == 3 - r

\* the document URL of a request
RunUrl(r) == IF r = 1 THEN "https://host/policy1.pdf" ELSE "https://host/policy2.pdf"

\* the texts behind the URLs: blank, one chunk, two chunks
OverlapTexts == {<<" ", "\n">>, Sentence(60), Sentence(60) \o <<"\n">> \o Sentence(60)}

\* the vector the embedding model gives every chunk of a request
RunEmbedding(r) == IF r = 1 THEN <<15, 8>> ELSE <<3, 4>>

OverlapQuestionLists == {[q \in 1..m |-> ReqPlain] : m \in 0..MaxQuestions}

OverlapFaults == {"none", "encode_single_text"}

NoTask ==
    [pc |-> "none", request |-> NoRequest, doc_chunks |-> << >>, answers |-> << >>,
     searches |-> << >>]

\* awaits that give the loop away
Suspends_Always(awaited) == TRUE

\* whether an await of process_query suspends the coroutine: download_document
\* calls the blocking requests.get and nothing below process_document or
\* _answer_question awaits anything else, so neither await reaches the loop
Suspends(awaited) == FALSE

\* what search_similar reads when a question is searched: the index and the
\* metadata of its positions
SearchedAgainst(store) ==
    [index |-> store.index,
     entries |-> [k \in {i \in 0..(Len(store.index) - 1) : i \in DOMAIN store.chunks_metadata}
                     |-> store.chunks_metadata[k]],
     other |-> ""]

InitOverlap ==
    /\ StoreNew
    /\ searched = << >>
    /\ pc = "idle"
    /\ request = NoRequest
    /\ doc_chunks = << >>
    /\ answers = << >>
    /\ run = NoRun
    /\ ChunkerIdle
    /\ NoCall
    /\ tasks = [r \in Runs |-> NoTask]
    /\ loop = 0

\* run_query is called with a request: the coroutine is created
Accept(r) ==
    /\ tasks[r].pc = "none"
    /\ \E questions \in OverlapQuestionLists :
          tasks' = [tasks EXCEPT ![r].pc = "accepted",
                                 ![r].request = [documents |-> RunUrl(r),
                                                 questions |-> questions]]
    /\ UNCHANGED <<storeVars, logVars, engineVars, chunkerVars, callVars, loop>>

\* the loop runs the coroutine up to "await process_document"
BeginQuery(r) ==
    /\ tasks[r].pc = "accepted"
    /\ loop = 0
    /\ tasks' = [tasks EXCEPT ![r].pc = "process_document"]
    /\ loop' = IF Suspends("process_document") THEN 0 ELSE r
    /\ UNCHANGED <<storeVars, logVars, engineVars, chunkerVars, callVars>>

\* step 1 of a request
ProcessDocumentOf(r) ==
    /\ tasks[r].pc = "process_document"
    /\ loop \in {0, r}
    /\ \/ tasks' = [tasks EXCEPT ![r].pc = "except"]
       \/ \E text \in OverlapTexts :
             tasks' = [tasks EXCEPT ![r].pc = "encode_texts",
                                    ![r].doc_chunks =
                                        process_document(text, tasks[r].request.documents)]
    /\ loop' = r
    /\ UNCHANGED <<storeVars, logVars, engineVars, chunkerVars, callVars>>

\* step 2 of a request
EncodeTextsOf(r) ==
    /\ tasks[r].pc = "encode_texts"
    /\ loop = r
    /\ \/ tasks' = [tasks EXCEPT ![r].pc = "except"]
       \/ tasks' = [tasks EXCEPT ![r].pc = "store_chunks",
                                 ![r].doc_chunks =
                                     AttachEmbeddings(@, [c \in 1..Len(@) |-> RunEmbedding(r)])]
    /\ UNCHANGED <<storeVars, logVars, engineVars, chunkerVars, callVars, loop>>

\* step 3 of a request
StoreDocumentOf(r) ==
    /\ tasks[r].pc = "store_chunks"
    /\ loop = r
    /\ SetStore(store_chunks(clear_index(Store), tasks[r].doc_chunks, "saved"))
    /\ tasks' = [tasks EXCEPT ![r].pc = "questions"]
    /\ UNCHANGED <<logVars, engineVars, chunkerVars, callVars, loop>>

\* step 4 of a request: "await self._answer_question(question)" for the next
\* question
AnswerQuestionOf(r) ==
    /\ tasks[r].pc = "questions"
    /\ loop \in {0, r}
    /\ Len(tasks[r].answers) < Len(tasks[r].request.questions)
    /\ \E fault \in OverlapFaults, tie \in TieOrders :
          LET got == _answer_question(Store,
                         tasks[r].request.questions[Len(tasks[r].answers) + 1], fault, tie)
          IN  tasks' = [tasks EXCEPT
                  ![r].answers = Append(@, got.answer),
                  ![r].searches =
                      IF fault = "encode_single_text" THEN @
                      ELSE Append(@, [SearchedAgainst(Store) EXCEPT
                                          !.other = tasks[Other(r)].pc])]
    /\ loop' = IF Suspends("_answer_question") THEN 0 ELSE r
    /\ UNCHANGED <<storeVars, logVars, engineVars, chunkerVars, callVars>>

\* the questions of a request are done: complete_cleanup, the coroutine ends
ReturnAnswersOf(r) ==
    /\ tasks[r].pc = "questions"
    /\ loop \in {0, r}
    /\ Len(tasks[r].answers) = Len(tasks[r].request.questions)
    /\ SetStore(complete_cleanup(Store))
    /\ tasks' = [tasks EXCEPT ![r].pc = "returned"]
    /\ loop' = 0
    /\ UNCHANGED <<logVars, engineVars, chunkerVars, callVars>>

\* the except clause of a request: cleanup, the coroutine ends with the exception
RaiseFailureOf(r) ==
    /\ tasks[r].pc = "except"
    /\ loop = r
    /\ SetStore(except_clause(Store))
    /\ tasks' = [tasks EXCEPT ![r].pc = "raised"]
    /\ loop' = 0
    /\ UNCHANGED <<logVars, engineVars, chunkerVars, callVars>>

NextOverlap ==
    \E r \in Runs :
        \/ Accept(r)
        \/ BeginQuery(r)
        \/ ProcessDocumentOf(r)
        \/ EncodeTextsOf(r)
        \/ StoreDocumentOf(r)
        \/ AnswerQuestionOf(r)
        \/ ReturnAnswersOf(r)
        \/ RaiseFailureOf(r)

SpecOverlap == InitOverlap /\ [][NextOverlap]_vars

\* what a search of request r reads when the store holds its chunks and
\* nothing else
OwnChunks(r) == SearchedAgainst(store_chunks(NoStore, tasks[r].doc_chunks, "saved"))

\* C23: whenever a question of a request was searched, the document of the
\* request had been chunked, embedded and stored, and the index and the
\* metadata the search read were those of the request's own chunks, although
\* the other request was accepted meanwhile
C23_RunsDoNotMix ==
    \A r \in Runs :
        \A s \in 1..Len(tasks[r].searches) :
            /\ \A c \in 1..Len(tasks[r].doc_chunks) : tasks[r].doc_chunks[c].embedding # << >>
            /\ tasks[r].searches[s].index = OwnChunks(r).index
            /\ tasks[r].searches[s].entries = OwnChunks(r).entries
            /\ \A k \in DOMAIN tasks[r].searches[s].entries :
                  tasks[r].searches[s].entries[k].metadata.source = RunUrl(r)

\* C23 happens: both requests were served, each got an answer from chunks
\* that were found, and the first was searching while the second had been
\* accepted and not served yet
C23_Witness ==
    /\ tasks # << >>
    /\ \A r \in Runs :
          /\ tasks[r].pc = "returned"
          /\ \E a \in 1..Len(tasks[r].answers) : tasks[r].answers[a] = Generated
    /\ \E r \in Runs :
          \E s \in 1..Len(tasks[r].searches) :
              /\ tasks[r].searches[s].other = "accepted"
              /\ tasks[r].searches[s].index # << >>

(***************************************************************************)
(* SpecPipeline: process_document applied to extracted texts of several    *)
(* lines, heading lines among them                                         *)
(***************************************************************************)
\* the most lines an extracted text has
MaxLines == 3

ColonHeading == <<"E","x","c","l","u","s","i","o","n","s",":">>

\* a line is a short sentence, a sentence long enough for a chunk, or a heading
PipelineLines == {Sentence(5), Sentence(55), HeadingLine, ColonHeading}

\* the extracted texts: every line ends with a newline, as the paragraphs of
\* extract_text_from_docx do
PipelineDocuments ==
    {Join(<< >>, [k \in 1..Len(lines) |-> lines[k] \o <<"\n">>]) :
        lines \in UNION {[1..m -> PipelineLines] : m \in 0..MaxLines}}

InitPipeline ==
    /\ StoreNew
    /\ searched = << >>
    /\ EngineIdle
    /\ ChunkerIdle
    /\ args \in {[text |-> text, blob_url |-> "https://host/policy.pdf"] : text \in PipelineDocuments}
    /\ result = << >>

ProcessDocumentCall ==
    /\ result' = <<process_document(args.text, args.blob_url)>>
    /\ UNCHANGED <<storeVars, logVars, engineVars, chunkerVars, args, loopVars>>

NextPipeline == ProcessDocumentCall

SpecPipeline == InitPipeline /\ [][NextPipeline]_vars

\* the sections the chunker makes of the text process_document hands it
PipelineSections == _split_by_semantic_boundaries(clean_text(args.text))

\* C24: the text that reaches create_semantic_chunks holds no newline, the
\* chunker makes at most one section of it, and all chunks of the document
\* carry the same section heading and the same chunk_type
C24_OneSectionPerDocument ==
    result # << >> =>
        /\ ~ Contains(<<"\n">>, clean_text(args.text))
        /\ Len(PipelineSections) <= 1
        /\ \A c, d \in 1..Len(result[1]) :
              /\ result[1][c].metadata.section = result[1][d].metadata.section
              /\ result[1][c].metadata.chunk_type = result[1][d].metadata.chunk_type

\* C24 happens: the extracted text has a heading line between two runs of
\* sentences, which the chunker on its own splits into sections, and the
\* pipeline gave two or more chunks
C24_Witness ==
    /\ result # << >>
    /\ Len(result[1]) >= 2
    /\ Len(_split_by_semantic_boundaries(args.text)) >= 2
    /\ \E line \in 1..Len(SplitLines(args.text)) : SplitLines(args.text)[line] = HeadingLine

====
